---- MODULE Spec2Model ----
(***************************************************************************)
(* gork: workflow engine (internal/engine), store (internal/db) and        *)
(* scheduler (internal/scheduler).                                         *)
(*                                                                         *)
(* Spec / FairSpec : one Engine.ExecuteWorkflow call with its step workers *)
(*                   on a store that a scheduler start-up recovery pass of *)
(*                   another process may touch.                            *)
(* SchedSpec       : the Scheduler (Start, loadWorkflows, runWorkflow,     *)
(*                   recoverRuns, shutdown) with Execute seen through the  *)
(*                   run rows it writes.                                   *)
(***************************************************************************)
EXTENDS Integers, Sequences, FiniteSets, TLC

\* ------------------------------------------------------------------ bounds
\* Largest value of WorkflowStep.Retries the workflows of the model use.
MaxRetries == 2

\* ------------------------------------------------------------- the model's
\* workflows: the step names, and the dependency shapes Validate accepts.
StepNames == {"A", "B", "C", "D"}

SingleDeps == [s \in {"A"} |-> {}]

ChainDeps == [s \in {"A", "B"} |-> IF s = "B" THEN {"A"} ELSE {}]

DiamondDeps == [s \in StepNames |->
                  CASE s = "A" -> {}
                    [] s = "B" -> {"A"}
                    [] s = "C" -> {"A"}
                    [] s = "D" -> {"B", "C"}]

Shapes == {SingleDeps, ChainDeps, DiamondDeps}

\* The steps of a shape that are given retries: every step of the small
\* shapes, step B of the diamond (the step that fails in it).
Retrying(d) == IF Cardinality(DOMAIN d) > 2 THEN {"B"} ELSE DOMAIN d

\* models.Workflow with its Steps: DependsOn, Retries, Timeout > 0, and whether
\* the steps pass data (each step declares an output and reads the output of
\* every step it depends on).
Workflows ==
  { [steps    |-> DOMAIN d,
     deps     |-> d,
     retries  |-> [s \in DOMAIN d |-> IF s \in Retrying(d) THEN r ELSE 0],
     timeout  |-> [s \in DOMAIN d |-> t],
     inputs   |-> [s \in DOMAIN d |-> IF io THEN d[s] ELSE {}],
     outputs  |-> [s \in DOMAIN d |-> io]] :
      d \in Shapes, r \in 0..MaxRetries, t \in BOOLEAN, io \in BOOLEAN }

\* models.RunStatus / models.StepStatus
RunStatusPending == "pending"
RunStatusRunning == "running"
RunStatusSuccess == "success"
RunStatusFailed == "failed"
RunStatusCanceled == "canceled"
StepStatusPending == "pending"
StepStatusRunning == "running"
StepStatusRetrying == "retrying"
StepStatusSuccess == "success"
StepStatusFailed == "failed"
StepStatusTimeout == "timeout"

\* RunStatus.IsTerminal / StepStatus.IsTerminal
IsTerminal(status) ==
  status \in {"success", "failed", "canceled", "timeout", "skipped"}

\* ------------------------------------------------------------------- state
VARIABLES
  \* --- one ExecuteWorkflow call
  wf,          \* the workflow handed to ExecuteWorkflow
  trigger,     \* "cli" (context.Background) or "scheduler" (cancellable ctx)
  ctxDone,     \* ctx.Done() is closed
  execPc,      \* position of ExecuteWorkflow
  received,    \* the loop index i of the receive loop
  execErr,     \* what ExecuteWorkflow returns: "none", "nil" or the error kind
  runStatus,   \* the status ExecuteWorkflow computed from GetStepRuns
  errCh,       \* the buffered result channel
  doneChans,   \* doneChans[s] is closed
  wpc,         \* position of executeStep(s)
  attempt,     \* executeStep's loop variable
  memAttempt,  \* stepRun.Attempt, the in-memory StepRun of the worker
  lastRes,     \* what runner.RunStep returned in the current attempt
  invocations, \* number of runner.RunStep calls of the step (history)
  \* --- the store
  runRow,      \* the runs row of this run
  stepRows,    \* the step_runs rows of this run, by step name
  stepData,    \* the steps with a step_data row in this run
  \* --- recoverRuns of a scheduler starting on the same store
  recPc,       \* "idle", "listed", "done"
  recSnap      \* the status ListRuns returned for the run

engineVars == <<wf, trigger, ctxDone, execPc, received, execErr, runStatus, errCh,
                doneChans, wpc, attempt, memAttempt, lastRes, invocations,
                runRow, stepRows, stepData, recPc, recSnap>>

VARIABLES
  \* --- the scheduler process (SchedSpec)
  schedPc,        \* position of Scheduler.Start
  rootDone,       \* s.ctx is cancelled
  loopVarShared,  \* the build gives `for _, w := range` one variable for all
                  \* iterations (Go before 1.22) or one per iteration
  schedules,      \* s.schedules: workflow id -> schedule object (0: no entry)
  scheds,         \* the workflowSchedule objects ever allocated
  nextSched,      \* the next object to allocate
  wg,             \* s.wg
  \* --- the store, as the scheduler sees it
  dbWorkflows,    \* workflows table: id -> schedule text, or "absent"
  dbRuns,         \* runs table: id -> row (status "none": no such row)
  nextRun,        \* the next run id InsertRun hands out
  edits,          \* number of workflow edits made so far (bounded)
  \* --- a CLI/TUI ExecuteWorkflow of another process on the same store
  ext,            \* [run, pc]
  \* --- recoverRuns
  recList,        \* the rows ListRuns(nil) returned
  recIdx,         \* the loop's position in recList
  startIncomplete \* the runs that were pending or running at start (history)

VARIABLES
  \* --- one call of calculateInitialDelay looked at alone (DelaySpec)
  delayIn,        \* [runs, duration, now]: the workflow's rows of the runs
                  \* table, the interval and the clock
  delayOut        \* the delay it returned (-1: not called yet)

delayVars == <<delayIn, delayOut>>

VARIABLES
  \* --- one run of a two-step chain A -> B with its data (DataSpec)
  dLogs,          \* the log lines runner.RunStep returns for step A
  dOutputs,       \* step A's Outputs: output key -> extraction rule
  dInputs,        \* step B's Inputs: input key -> [src, key] of "src.key"
  dPc,            \* position of the run
  dData,          \* the step_data rows
  dStepRuns,      \* step -> status of its step_runs row ("none": no row)
  dInvoked,       \* the steps runner.RunStep was called for
  dEnv,           \* resolvedStep.Env of step B
  dErr,           \* the error ExecuteWorkflow returns ("none": not yet)
  dRun            \* the status of the runs row

dataVars == <<dLogs, dOutputs, dInputs, dPc, dData, dStepRuns, dInvoked, dEnv,
              dErr, dRun>>

VARIABLES
  \* --- concurrent DB.AppendLogs calls for one step_runs row (AppendSpec)
  aLogs,          \* the logs column of the row
  aArg,           \* caller -> the lines it appends
  aPc,            \* caller -> "select", "update", "done"
  aRead,          \* caller -> currentLogs, what its SELECT returned
  aTry,           \* caller -> retryDBOperation's loop variable i
  aErr            \* caller -> what AppendLogs returned ("none": not yet)

appendVars == <<aLogs, aArg, aPc, aRead, aTry, aErr>>

VARIABLES
  \* --- the store's tables and its callers (StoreSpec)
  tWorkflows,     \* workflows rows
  tRuns,          \* runs rows: [id, wf]
  tStepRuns,      \* step_runs rows: [id, run]
  tStepData,      \* step_data rows: [run, step, key, value]
  tSeq,           \* sqlite_sequence of workflows (AUTOINCREMENT)
  tClock,         \* the time, one tick per InsertWorkflow
  tLast,          \* name -> what InsertWorkflow was last called with (history)
  delPc,          \* DELETE statements done by the cascade under way (0: none)
  delId,          \* the workflow id of that cascade (0: ResetAllData)
  tAborted,       \* the id of the last cascade that ended early, or -1 (history)
  tCall           \* the last call and what it returned (history)

storeVars == <<tWorkflows, tRuns, tStepRuns, tStepData, tSeq, tClock, tLast,
               delPc, delId, tAborted, tCall>>

VARIABLES
  \* --- one call of retryDBOperation (RetrySpec)
  rPc,            \* "call": about to run the operation, "sleep", "done", "off"
  rI,             \* the loop variable i
  rErrs,          \* what the attempts so far returned (history)
  rDelays,        \* the sleeps so far, in ms (history)
  rRet            \* what retryDBOperation returned

retryVars == <<rPc, rI, rErrs, rDelays, rRet>>

VARIABLES
  \* --- one call of Workflow.Validate (ValidateSpec)
  vWf,            \* the workflow it is called on
  vPc,            \* "call", "done", "off"
  vErr            \* what it returned

validateVars == <<vWf, vPc, vErr>>

VARIABLES
  \* --- the step workers of one run, store call by store call (WorkerSpec)
  mu,             \* e.mu: the worker that holds it, or "free"
  kPc,            \* position of each worker in executeStep
  kBusy,          \* the worker is inside a store call on its StepRun
  kAttempt,       \* the loop variable attempt
  kLast,          \* what runner.RunStep returned in this attempt: [err, logs]
  kMemLogs,       \* stepRun.Logs, in the worker's memory
  kRow,           \* the worker's step_runs row: [status, logs]
  kReturned       \* the logs of the attempts so far, one entry each (history)

workerVars == <<mu, kPc, kBusy, kAttempt, kLast, kMemLogs, kRow, kReturned>>

libVars == <<dataVars, appendVars, storeVars, retryVars, validateVars, workerVars>>

schedOwnVars == <<schedPc, rootDone, loopVarShared, schedules, scheds, nextSched,
                  wg, dbWorkflows, dbRuns, nextRun, edits, ext, recList, recIdx,
                  startIncomplete>>

schedVars == <<schedOwnVars, delayVars, libVars>>

vars == <<engineVars, schedVars>>

NoRun == [status |-> "none", completedAt |-> "null"]

NoStepRun == [status |-> "none", attempt |-> 0, completedAt |-> "null", error |-> ""]

\* --------------------------------------------------------------- the store
\* DB.UpdateRunStatus: UPDATE runs SET status = ?, completed_at = ? WHERE id = ?
UpdateRunStatus(row, status, completedAt) ==
  IF row.status = "none" THEN row
  ELSE [row EXCEPT !.status = status, !.completedAt = completedAt]

\* DB.InsertStepRun: the row as the worker built it (pending, Attempt 0).
InsertStepRun(status, att) ==
  [status |-> status, attempt |-> att, completedAt |-> "null", error |-> ""]

\* Mutant of UpdateStepRun: the UPDATE matches no row.
UpdateStepRun_NoRow(row, status, completedAt, errorMsg) == row

\* DB.UpdateStepRun: UPDATE step_runs SET status, completed_at, error, logs.
\* The attempt column is not among the columns it sets.
UpdateStepRun(row, status, completedAt, errorMsg) ==
  [row EXCEPT !.status = status, !.completedAt = completedAt, !.error = errorMsg]

\* ---------------------------------------------------- scheduler, the data
\* Bounds of the scheduler model.
NumWorkflows == 2

MaxScheds == 2

MaxRuns == 2

NumPreRuns == 1

MaxEdits == 1

WfIds == 1..NumWorkflows

SchedIds == 1..MaxScheds

RunIds == 1..MaxRuns

\* Workflow.Schedule texts: two that time.ParseDuration accepts, the empty
\* one and one that does not parse.
Durations == {"d1", "d2"}

ScheduleTexts == Durations \cup {"", "bad"}

NoRunRow == [wf |-> 0, status |-> "none", completedAt |-> "null", trigger |-> ""]

NoSched == [key |-> 0, workflow |-> 0, duration |-> "", running |-> FALSE,
            cancelRun |-> FALSE, timer |-> "none", delay |-> 0,
            task |-> "none", run |-> 0, ctxDone |-> FALSE]

\* No scheduler process.
SchedIdle ==
  /\ schedPc = "off"
  /\ rootDone = FALSE
  /\ loopVarShared = FALSE
  /\ schedules = [w \in WfIds |-> 0]
  /\ scheds = [k \in SchedIds |-> NoSched]
  /\ nextSched = 1
  /\ wg = 0
  /\ dbWorkflows = [w \in WfIds |-> "absent"]
  /\ dbRuns = [r \in RunIds |-> NoRunRow]
  /\ nextRun = 1
  /\ edits = 0
  /\ ext = [run |-> 0, pc |-> "idle"]
  /\ recList = [r \in RunIds |-> "none"]
  /\ recIdx = 0
  /\ startIncomplete = {}

\* calculateInitialDelay has no call under way.
DelayOff ==
  /\ delayIn = [runs |-> {}, duration |-> 0, now |-> 0]
  /\ delayOut = -1

\* The scheduler's variables while the engine is looked at alone.
\* No run of the chain A -> B.
DataOff ==
  /\ dLogs = <<>>
  /\ dOutputs = <<>>
  /\ dInputs = <<>>
  /\ dPc = "off"
  /\ dData = {}
  /\ dStepRuns = <<>>
  /\ dInvoked = {}
  /\ dEnv = <<>>
  /\ dErr = "none"
  /\ dRun = "none"

\* No AppendLogs call.
AppendOff ==
  /\ aLogs = <<>>
  /\ aArg = <<>>
  /\ aPc = <<>>
  /\ aRead = <<>>
  /\ aTry = <<>>
  /\ aErr = <<>>

\* No caller of the store model.
StoreOff ==
  /\ tWorkflows = {}
  /\ tRuns = {}
  /\ tStepRuns = {}
  /\ tStepData = {}
  /\ tSeq = 0
  /\ tClock = 0
  /\ tLast = <<>>
  /\ delPc = 0
  /\ delId = 0
  /\ tAborted = -1
  /\ tCall = [op |-> "off"]

\* No call of retryDBOperation under way.
RetryOff ==
  /\ rPc = "off"
  /\ rI = 0
  /\ rErrs = <<>>
  /\ rDelays = <<>>
  /\ rRet = <<>>

\* The store and engine parts that are looked at alone are not in use.
\* No call of Workflow.Validate under way.
ValidateOff ==
  /\ vWf = <<>>
  /\ vPc = "off"
  /\ vErr = "nil"

\* No worker of the worker model.
WorkerOff ==
  /\ mu = "off"
  /\ kPc = <<>>
  /\ kBusy = <<>>
  /\ kAttempt = <<>>
  /\ kLast = <<>>
  /\ kMemLogs = <<>>
  /\ kRow = <<>>
  /\ kReturned = <<>>

LibOff ==
  DataOff /\ AppendOff /\ StoreOff /\ RetryOff /\ ValidateOff /\ WorkerOff

SchedOff ==
  /\ DelayOff
  /\ LibOff
  /\ SchedIdle

\* ------------------------------------------------------------ the engine
Init ==
  /\ wf \in Workflows
  /\ trigger \in {"cli", "scheduler"}
  /\ ctxDone = FALSE
  /\ execPc = "insertRun"
  /\ received = 0
  /\ execErr = "none"
  /\ runStatus = "none"
  /\ errCh = <<>>
  /\ doneChans = [s \in StepNames |-> FALSE]
  /\ wpc = [s \in StepNames |-> "idle"]
  /\ attempt = [s \in StepNames |-> 0]
  /\ memAttempt = [s \in StepNames |-> 0]
  /\ lastRes = [s \in StepNames |-> "none"]
  /\ invocations = [s \in StepNames |-> 0]
  /\ runRow = NoRun
  /\ stepRows = [s \in StepNames |-> NoStepRun]
  /\ stepData = {}
  /\ recPc = "idle"
  /\ recSnap = "none"
  /\ SchedOff

storeUnchanged == UNCHANGED <<runRow, stepRows, stepData>>

workersUnchanged ==
  UNCHANGED <<doneChans, wpc, attempt, memAttempt, lastRes, invocations>>

execUnchanged == UNCHANGED <<wf, trigger, execPc, received, execErr, runStatus>>

recUnchanged == UNCHANGED <<recPc, recSnap>>

\* The caller's context is cancelled (the scheduler's cancelRun or root cancel).
\* The CLI and the TUI pass context.Background(), which is never cancelled.
CancelCtx ==
  /\ trigger = "scheduler"
  /\ ~ctxDone
  /\ execPc # "returned"
  /\ ctxDone' = TRUE
  /\ UNCHANGED <<errCh, stepData, runRow, stepRows>>
  /\ workersUnchanged /\ execUnchanged /\ recUnchanged
  /\ UNCHANGED schedVars

\* ExecuteWorkflow: InsertRun with status pending.
ExecInsertRun ==
  /\ execPc = "insertRun"
  /\ runRow' = [status |-> RunStatusPending, completedAt |-> "null"]
  /\ execPc' = "setRunning"
  /\ UNCHANGED <<wf, trigger, received, execErr, runStatus, ctxDone, errCh,
                 stepRows, stepData>>
  /\ workersUnchanged /\ recUnchanged
  /\ UNCHANGED schedVars

\* ExecuteWorkflow: UpdateRunStatus(runID, running, nil).
ExecSetRunning ==
  /\ execPc = "setRunning"
  /\ runRow' = UpdateRunStatus(runRow, RunStatusRunning, "null")
  /\ execPc' = "spawn"
  /\ UNCHANGED <<wf, trigger, received, execErr, runStatus, ctxDone, errCh,
                 stepRows, stepData>>
  /\ workersUnchanged /\ recUnchanged
  /\ UNCHANGED schedVars

\* ExecuteWorkflow: make the channels and start one goroutine per step.
ExecSpawn ==
  /\ execPc = "spawn"
  /\ wpc' = [s \in StepNames |-> IF s \in wf.steps THEN "wait" ELSE "idle"]
  /\ execPc' = "collect"
  /\ UNCHANGED <<wf, trigger, received, execErr, runStatus, ctxDone, errCh,
                 doneChans, attempt, memAttempt, lastRes, invocations>>
  /\ storeUnchanged /\ recUnchanged
  /\ UNCHANGED schedVars

\* Mutant of ErrEndsLoop: the receive loop drops the error it received.
ErrEndsLoop_Ignored(res) == FALSE

\* The receive loop's reaction to one result: a non-nil error ends the loop.
ErrEndsLoop(res) == res.err # "nil"

\* ExecuteWorkflow: one iteration of `for i < len(Steps) { err := <-errCh ... }`.
ExecRecv ==
  /\ execPc = "collect"
  /\ errCh # <<>>
  /\ LET res == Head(errCh) IN
       /\ errCh' = Tail(errCh)
       /\ IF ErrEndsLoop(res)
            THEN /\ execPc' = "markFailed"
                 /\ execErr' = res.err
                 /\ received' = received
            ELSE /\ received' = received + 1
                 /\ execErr' = execErr
                 /\ execPc' = IF received + 1 = Cardinality(wf.steps)
                                THEN "getStepRuns" ELSE "collect"
  /\ UNCHANGED <<wf, trigger, runStatus, ctxDone>>
  /\ workersUnchanged /\ storeUnchanged /\ recUnchanged
  /\ UNCHANGED schedVars

\* ExecuteWorkflow: on an error, UpdateRunStatus(runID, failed, &time.Time{})
\* and return at once.
ExecMarkFailed ==
  /\ execPc = "markFailed"
  /\ runRow' = UpdateRunStatus(runRow, RunStatusFailed, "zero")
  /\ execPc' = "returned"
  /\ UNCHANGED <<wf, trigger, received, execErr, runStatus, ctxDone, errCh,
                 stepRows, stepData>>
  /\ workersUnchanged /\ recUnchanged
  /\ UNCHANGED schedVars

\* The run status computed from the rows GetStepRuns returned.
FinalRunStatus(rows) ==
  IF \E s \in StepNames : rows[s].status \in {StepStatusFailed, StepStatusTimeout}
    THEN RunStatusFailed ELSE RunStatusSuccess

\* ExecuteWorkflow: GetStepRuns and the loop over them.
ExecGetStepRuns ==
  /\ execPc = "getStepRuns"
  /\ runStatus' = FinalRunStatus(stepRows)
  /\ execPc' = "finalUpdate"
  /\ UNCHANGED <<wf, trigger, received, execErr, ctxDone, errCh>>
  /\ workersUnchanged /\ storeUnchanged /\ recUnchanged
  /\ UNCHANGED schedVars

\* ExecuteWorkflow: UpdateRunStatus(runID, runStatus, &completedAt); return.
ExecFinalUpdate ==
  /\ execPc = "finalUpdate"
  /\ runRow' = UpdateRunStatus(runRow, runStatus, "now")
  /\ execErr' = "nil"
  /\ execPc' = "returned"
  /\ UNCHANGED <<wf, trigger, received, runStatus, ctxDone, errCh, stepRows, stepData>>
  /\ workersUnchanged /\ recUnchanged
  /\ UNCHANGED schedVars

\* ------------------------------------------------------ executeStep(step)
\* Mutant of Send: the worker sends its result twice.
Send_Twice(s, err) ==
  Append(Append(errCh, [from |-> s, err |-> err]), [from |-> s, err |-> err])

\* errCh <- err
Send(s, err) == Append(errCh, [from |-> s, err |-> err])

\* Mutant of DepsDone: the worker does not wait for its dependencies.
DepsDone_NoWait(s) == TRUE

\* Every channel of step.DependsOn is closed: each `case <-doneChans[dep]` of
\* the dependency loop can be taken.
DepsDone(s) == \A d \in wf.deps[s] : doneChans[d]

\* Mutant of CtxWakes: a waiting worker does not look at ctx.Done().
CtxWakes_Never(s) == FALSE

\* `case <-ctx.Done():` of the worker's selects can be taken.
CtxWakes(s) == ctxDone

\* executeStep: the dependency loop. Each select takes the dependency's channel
\* when it is closed or ctx.Done() when the context is cancelled (either, when
\* both are ready); nothing is written while waiting.
WaitDeps(s) ==
  /\ wpc[s] = "wait"
  /\ \/ /\ DepsDone(s)
        /\ wpc' = [wpc EXCEPT ![s] = "resolve"]
        /\ errCh' = errCh
     \/ /\ wf.deps[s] # {}
        /\ CtxWakes(s)
        /\ errCh' = Send(s, "ctx")
        /\ wpc' = [wpc EXCEPT ![s] = "exit"]
  /\ UNCHANGED <<ctxDone, doneChans, attempt, memAttempt, lastRes, invocations>>
  /\ execUnchanged /\ storeUnchanged /\ recUnchanged
  /\ UNCHANGED schedVars

\* resolveStepInputs: every input "src.key" must have a step_data row.
InputsResolve(s) == wf.inputs[s] \subseteq stepData

\* executeStep: resolveStepInputs; on an error the worker reports it and returns.
ResolveInputs(s) ==
  /\ wpc[s] = "resolve"
  /\ IF InputsResolve(s)
       THEN /\ wpc' = [wpc EXCEPT ![s] = "insert"]
            /\ errCh' = errCh
       ELSE /\ errCh' = Send(s, "resolve")
            /\ wpc' = [wpc EXCEPT ![s] = "exit"]
  /\ UNCHANGED <<ctxDone, doneChans, attempt, memAttempt, lastRes, invocations>>
  /\ execUnchanged /\ storeUnchanged /\ recUnchanged
  /\ UNCHANGED schedVars

\* executeStep: InsertStepRun(pending, Attempt 0).
InsertStep(s) ==
  /\ wpc[s] = "insert"
  /\ stepRows' = [stepRows EXCEPT ![s] = InsertStepRun(StepStatusPending, 0)]
  /\ wpc' = [wpc EXCEPT ![s] = "setRunning"]
  /\ UNCHANGED <<ctxDone, errCh, doneChans, attempt, memAttempt, lastRes,
                 invocations, runRow, stepData>>
  /\ execUnchanged /\ recUnchanged
  /\ UNCHANGED schedVars

\* executeStep: UpdateStepRun(running), then the attempt loop starts at 0.
SetStepRunning(s) ==
  /\ wpc[s] = "setRunning"
  /\ stepRows' = [stepRows EXCEPT
                    ![s] = UpdateStepRun(stepRows[s], StepStatusRunning, "null", "")]
  /\ attempt' = [attempt EXCEPT ![s] = 0]
  /\ wpc' = [wpc EXCEPT ![s] = "loop"]
  /\ UNCHANGED <<ctxDone, errCh, doneChans, memAttempt, lastRes, invocations,
                 runRow, stepData>>
  /\ execUnchanged /\ recUnchanged
  /\ UNCHANGED schedVars

\* executeStep: head of an attempt: stepRun.Attempt = attempt, and for
\* attempt > 0 UpdateStepRun(retrying) before the back-off.
LoopHead(s) ==
  /\ wpc[s] = "loop"
  /\ memAttempt' = [memAttempt EXCEPT ![s] = attempt[s]]
  /\ IF attempt[s] > 0
       THEN /\ stepRows' = [stepRows EXCEPT
                   ![s] = UpdateStepRun(stepRows[s], StepStatusRetrying, "null", "")]
            /\ wpc' = [wpc EXCEPT ![s] = "backoff"]
       ELSE /\ stepRows' = stepRows
            /\ wpc' = [wpc EXCEPT ![s] = "run"]
  /\ UNCHANGED <<ctxDone, errCh, doneChans, attempt, lastRes, invocations,
                 runRow, stepData>>
  /\ execUnchanged /\ recUnchanged
  /\ UNCHANGED schedVars

\* executeStep: select { <-time.After(RetryDelay); <-ctx.Done() }.
Backoff(s) ==
  /\ wpc[s] = "backoff"
  /\ \/ /\ wpc' = [wpc EXCEPT ![s] = "run"]
        /\ errCh' = errCh
     \/ /\ CtxWakes(s)
        /\ errCh' = Send(s, "ctx")
        /\ wpc' = [wpc EXCEPT ![s] = "exit"]
  /\ UNCHANGED <<ctxDone, doneChans, attempt, memAttempt, lastRes, invocations>>
  /\ execUnchanged /\ storeUnchanged /\ recUnchanged
  /\ UNCHANGED schedVars

\* What runner.RunStep can return under stepCtx: no error, an error, or an
\* error with stepCtx's deadline expired (only with step.Timeout > 0).
RunnerResults(s) ==
  {"ok", "fail"} \cup (IF wf.timeout[s] THEN {"deadline"} ELSE {})

\* executeStep: logs, err := runner.RunStep(stepCtx, resolvedStep).
RunStep(s) ==
  /\ wpc[s] = "run"
  /\ \E res \in RunnerResults(s) : lastRes' = [lastRes EXCEPT ![s] = res]
  /\ invocations' = [invocations EXCEPT ![s] = invocations[s] + 1]
  /\ wpc' = [wpc EXCEPT ![s] = "append"]
  /\ UNCHANGED <<ctxDone, errCh, doneChans, attempt, memAttempt>>
  /\ execUnchanged /\ storeUnchanged /\ recUnchanged
  /\ UNCHANGED schedVars

\* Mutant of AttemptsRemain: the loop bound is off by one.
AttemptsRemain_OffByOne(s) == attempt[s] <= wf.retries[s]

\* `if attempt < step.Retries { continue }`
AttemptsRemain(s) == attempt[s] < wf.retries[s]

\* executeStep: AppendLogs, then the branch on err: success path, another
\* attempt, or the terminal failure.
AppendLogs(s) ==
  /\ wpc[s] = "append"
  /\ IF lastRes[s] = "ok"
       THEN /\ wpc' = [wpc EXCEPT ![s] = "store"]
            /\ attempt' = attempt
       ELSE IF AttemptsRemain(s)
         THEN /\ attempt' = [attempt EXCEPT ![s] = attempt[s] + 1]
              /\ wpc' = [wpc EXCEPT ![s] = "loop"]
         ELSE /\ attempt' = attempt
              /\ wpc' = [wpc EXCEPT ![s] = "terminal"]
  /\ UNCHANGED <<ctxDone, errCh, doneChans, memAttempt, lastRes, invocations>>
  /\ execUnchanged /\ storeUnchanged /\ recUnchanged
  /\ UNCHANGED schedVars

\* executeStep: storeStepOutputs: a declared output is stored when the value
\* extracted from the logs is not empty.
StoreStepOutputs(s) ==
  /\ wpc[s] = "store"
  /\ \/ stepData' = stepData
     \/ /\ wf.outputs[s]
        /\ s \notin stepData
        /\ stepData' = stepData \cup {s}
  /\ wpc' = [wpc EXCEPT ![s] = "success"]
  /\ UNCHANGED <<ctxDone, errCh, doneChans, attempt, memAttempt, lastRes,
                 invocations, runRow, stepRows>>
  /\ execUnchanged /\ recUnchanged
  /\ UNCHANGED schedVars

\* executeStep: UpdateStepRun(success, &completedAt); break.
SetStepSuccess(s) ==
  /\ wpc[s] = "success"
  /\ stepRows' = [stepRows EXCEPT
                    ![s] = UpdateStepRun(stepRows[s], StepStatusSuccess, "now", "")]
  /\ wpc' = [wpc EXCEPT ![s] = "close"]
  /\ UNCHANGED <<ctxDone, errCh, doneChans, attempt, memAttempt, lastRes,
                 invocations, runRow, stepData>>
  /\ execUnchanged /\ recUnchanged
  /\ UNCHANGED schedVars

\* executeStep, after the loop: close(doneChans[step.Name]); errCh <- nil.
CloseDone(s) ==
  /\ wpc[s] = "close"
  /\ doneChans' = [doneChans EXCEPT ![s] = TRUE]
  /\ errCh' = Send(s, "nil")
  /\ wpc' = [wpc EXCEPT ![s] = "exit"]
  /\ UNCHANGED <<ctxDone, attempt, memAttempt, lastRes, invocations>>
  /\ execUnchanged /\ storeUnchanged /\ recUnchanged
  /\ UNCHANGED schedVars

\* Mutant of TerminalStatus: the deadline of stepCtx is not looked at.
TerminalStatus_AlwaysFailed(res) == StepStatusFailed

\* `if stepCtx.Err() == context.DeadlineExceeded { status = timeout }`
TerminalStatus(res) ==
  IF res = "deadline" THEN StepStatusTimeout ELSE StepStatusFailed

\* executeStep, attempts exhausted: UpdateStepRun(failed | timeout,
\* &completedAt, lastErr); errCh <- "step failed"; return. The step's channel
\* of doneChans is not closed on this path.
SetStepTerminal(s) ==
  /\ wpc[s] = "terminal"
  /\ stepRows' = [stepRows EXCEPT
        ![s] = UpdateStepRun(stepRows[s], TerminalStatus(lastRes[s]), "now", "err")]
  /\ errCh' = Send(s, "step")
  /\ wpc' = [wpc EXCEPT ![s] = "exit"]
  /\ UNCHANGED <<ctxDone, doneChans, attempt, memAttempt, lastRes, invocations,
                 runRow, stepData>>
  /\ execUnchanged /\ recUnchanged
  /\ UNCHANGED schedVars

\* ------------------------------------------- recoverRuns on the same store
\* A scheduler of another process starts while a CLI or TUI run is under way.
Incomplete(status) == status \in {RunStatusRunning, RunStatusPending}

\* recoverRuns: runs, err := ListRuns(nil)
RecoverList ==
  /\ trigger = "cli"
  /\ recPc = "idle"
  /\ recSnap' = runRow.status
  /\ recPc' = "listed"
  /\ UNCHANGED <<ctxDone, errCh>>
  /\ execUnchanged /\ workersUnchanged /\ storeUnchanged
  /\ UNCHANGED schedVars

\* recoverRuns: the loop: UpdateRunStatus(r.ID, canceled, &now) for the runs
\* the list showed running or pending.
RecoverUpdate ==
  /\ recPc = "listed"
  /\ runRow' = IF Incomplete(recSnap)
                 THEN UpdateRunStatus(runRow, RunStatusCanceled, "now")
                 ELSE runRow
  /\ recPc' = "done"
  /\ UNCHANGED <<ctxDone, errCh, recSnap, stepRows, stepData>>
  /\ execUnchanged /\ workersUnchanged
  /\ UNCHANGED schedVars

executeStep(s) ==
  \/ WaitDeps(s)
  \/ ResolveInputs(s)
  \/ InsertStep(s)
  \/ SetStepRunning(s)
  \/ LoopHead(s)
  \/ Backoff(s)
  \/ RunStep(s)
  \/ AppendLogs(s)
  \/ StoreStepOutputs(s)
  \/ SetStepSuccess(s)
  \/ CloseDone(s)
  \/ SetStepTerminal(s)

ExecuteWorkflow ==
  \/ ExecInsertRun
  \/ ExecSetRunning
  \/ ExecSpawn
  \/ ExecRecv
  \/ ExecMarkFailed
  \/ ExecGetStepRuns
  \/ ExecFinalUpdate

Next ==
  \/ ExecuteWorkflow
  \/ \E s \in StepNames : executeStep(s)
  \/ CancelCtx
  \/ RecoverList
  \/ RecoverUpdate

Spec == Init /\ [][Next]_vars

\* Go schedules every goroutine that can run, and the runner's actions end.
FairSpec ==
  /\ Spec
  /\ WF_vars(ExecuteWorkflow)
  /\ \A s \in StepNames : WF_vars(executeStep(s))

\* ============================================================ the scheduler
\* The engine's variables while the scheduler is looked at alone.
EngineOff ==
  /\ wf = [steps |-> {}, deps |-> <<>>, retries |-> <<>>, timeout |-> <<>>,
           inputs |-> <<>>, outputs |-> <<>>]
  /\ trigger = "scheduler"
  /\ ctxDone = FALSE
  /\ execPc = "off"
  /\ received = 0
  /\ execErr = "none"
  /\ runStatus = "none"
  /\ errCh = <<>>
  /\ doneChans = [s \in StepNames |-> FALSE]
  /\ wpc = [s \in StepNames |-> "idle"]
  /\ attempt = [s \in StepNames |-> 0]
  /\ memAttempt = [s \in StepNames |-> 0]
  /\ lastRes = [s \in StepNames |-> "none"]
  /\ invocations = [s \in StepNames |-> 0]
  /\ runRow = NoRun
  /\ stepRows = [s \in StepNames |-> NoStepRun]
  /\ stepData = {}
  /\ recPc = "idle"
  /\ recSnap = "none"

\* The run rows a store can hold when the daemon starts: left by a crashed
\* process, finished, or of a CLI run that is under way.
PreRows ==
  { [wf |-> w, status |-> st,
     completedAt |-> IF st = RunStatusSuccess THEN "old" ELSE "null",
     trigger |-> tr] :
      w \in WfIds, st \in {RunStatusPending, RunStatusRunning, RunStatusSuccess},
      tr \in {"cli", "scheduler"} }

\* The state when Scheduler.Start is called (NewScheduler: empty schedules).
SchedInit ==
  /\ EngineOff
  /\ DelayOff
  /\ LibOff
  /\ schedPc = "recover"
  /\ rootDone = FALSE
  /\ loopVarShared \in BOOLEAN
  /\ schedules = [w \in WfIds |-> 0]
  /\ scheds = [k \in SchedIds |-> NoSched]
  /\ nextSched = 1
  /\ wg = 0
  /\ dbWorkflows \in [WfIds -> {"d1", ""}]
  /\ dbWorkflows[1] = "d1"
  /\ \E n \in 0..NumPreRuns :
       /\ nextRun = n + 1
       /\ dbRuns \in [RunIds -> PreRows \cup {NoRunRow}]
       /\ \A r \in RunIds : (dbRuns[r] = NoRunRow) <=> (r > n)
  /\ \A r \in RunIds :
       dbRuns[r].status # "none" => dbWorkflows[dbRuns[r].wf] # "absent"
  /\ ext \in {[run |-> 0, pc |-> "idle"]} \cup
             { [run |-> r, pc |-> dbRuns[r].status] :
                 r \in {x \in RunIds : /\ dbRuns[x].trigger = "cli"
                                       /\ Incomplete(dbRuns[x].status)} }
  /\ edits = 0
  /\ recList = [r \in RunIds |-> "none"]
  /\ recIdx = 0
  /\ startIncomplete = {r \in RunIds : Incomplete(dbRuns[r].status)}

engineOff == UNCHANGED <<engineVars, delayVars, libVars>>

\* time.Now() as the store's completed_at column records it: "start" while
\* Start is in recoverRuns and the first loadWorkflows, which take no time
\* next to an interval, "now" later ("old": before the process started).
Clock == IF schedPc \in {"recover", "recovering", "load"} THEN "start" ELSE "now"

\* --- recoverRuns
\* recoverRuns: runs, err := s.db.ListRuns(nil)   (ORDER BY created_at DESC)
recoverRunsList ==
  /\ schedPc = "recover"
  /\ recList' = [r \in RunIds |-> dbRuns[r].status]
  /\ recIdx' = nextRun - 1
  /\ schedPc' = "recovering"
  /\ UNCHANGED <<rootDone, loopVarShared, schedules, scheds, nextSched, wg,
                 dbWorkflows, dbRuns, nextRun, edits, ext, startIncomplete>>
  /\ engineOff

\* recoverRuns: one iteration of the loop over the listed runs; after the last
\* one recoverRuns returns and Start goes on to loadWorkflows.
recoverRunsStep ==
  /\ schedPc = "recovering"
  /\ IF recIdx = 0
       THEN /\ schedPc' = "load"
            /\ UNCHANGED <<dbRuns, recIdx>>
       ELSE /\ dbRuns' = [dbRuns EXCEPT ![recIdx] =
                            IF Incomplete(recList[recIdx])
                              THEN UpdateRunStatus(@, RunStatusCanceled, Clock)
                              ELSE @]
            /\ recIdx' = recIdx - 1
            /\ schedPc' = schedPc
  /\ UNCHANGED <<rootDone, loopVarShared, schedules, scheds, nextSched, wg,
                 dbWorkflows, nextRun, edits, ext, recList, startIncomplete>>
  /\ engineOff

\* --- calculateInitialDelay
\* Bounds of the inputs of one call: rows of the workflow, clock values and
\* intervals. Time 0 is Go's zero time: what a NULL completed_at, and the zero
\* time InsertRun and the failure path store, read back as.
MaxDelayRuns == 2

MaxTime == 4

MaxDuration == 3

\* The tables a call can find: up to MaxDelayRuns rows of the workflow, created
\* at different times.
RunTables ==
  UNION { { {[createdAt |-> i, completedAt |-> c[i]] : i \in 1..n} :
              c \in [1..n -> 0..MaxTime] } : n \in 0..MaxDelayRuns }

\* DB.ListRuns(&w.ID): the workflow's rows, ORDER BY created_at DESC.
RECURSIVE ListRuns(_)
ListRuns(rows) ==
  IF rows = {} THEN <<>>
  ELSE LET r == CHOOSE x \in rows : \A y \in rows : y.createdAt <= x.createdAt
       IN <<r>> \o ListRuns(rows \ {r})

\* Mutant of calculateInitialDelay: the zero completed_at of a run that never
\* completed is taken for a time.
calculateInitialDelay_NoZeroCheck(runs, duration, now) ==
  IF Len(runs) = 0 THEN 0
  ELSE IF now - runs[1].completedAt >= duration THEN 0
  ELSE duration - (now - runs[1].completedAt)

\* calculateInitialDelay, on the rows ListRuns returned.
calculateInitialDelay(runs, duration, now) ==
  IF Len(runs) = 0 THEN 0
  ELSE LET lastRun == runs[1] IN
       IF lastRun.completedAt = 0 THEN duration
       ELSE LET elapsed == now - lastRun.completedAt IN
            IF elapsed >= duration THEN 0 ELSE duration - elapsed

\* --- loadWorkflows
\* timer.Stop(): a timer that has not fired will not fire; one that has fired
\* (its runWorkflow call is waiting for s.mu) is not stopped.
Stop(timer) == IF timer = "armed" THEN "stopped" ELSE timer

\* The interval a schedule text parses to.
Interval(text) == IF text = "d1" THEN 2 ELSE 3

\* The clock of a reconcile pass, later than every completed_at of the store.
PassTime == MaxDuration + 1

\* The workflow's rows as calculateInitialDelay reads them in a pass: a NULL or
\* zero completed_at reads as the zero time, one written during startup is of
\* this instant in the first pass, any other lies `elapsed` back.
RowsOf(w, elapsed) ==
  { [createdAt |-> r,
     completedAt |-> IF dbRuns[r].completedAt \in {"null", "zero"} THEN 0
                     ELSE IF dbRuns[r].completedAt = "start" /\ schedPc = "load"
                       THEN PassTime
                     ELSE PassTime - elapsed] :
      r \in {x \in RunIds : dbRuns[x].status # "none" /\ dbRuns[x].wf = w} }

\* scheduleWorkflow: a new workflowSchedule with its timer armed for the
\* initial delay.
scheduleWorkflow(w, duration, elapsed) ==
  [key |-> w, workflow |-> w, duration |-> duration, running |-> FALSE,
   cancelRun |-> FALSE, timer |-> "armed",
   delay |-> calculateInitialDelay(ListRuns(RowsOf(w, elapsed)),
                                   Interval(duration), PassTime),
   task |-> "none", run |-> 0, ctxDone |-> FALSE]

\* What `sched.workflow = &w` leaves in the schedule: this iteration's
\* workflow, or with one loop variable for all iterations the workflow of the
\* last iteration.
SnapshotOf(w, last) == IF loopVarShared THEN last ELSE w

\* loadWorkflows: the body of `for _, w := range workflows` for workflow w on
\* st = [scheds, schedules, next].
LoadOne(st, w, last, elapsed) ==
  LET text == dbWorkflows[w]
      k == st.schedules[w]
  IN IF text = "absent" THEN st
     ELSE IF text = ""
       THEN IF k # 0
              THEN [st EXCEPT !.scheds[k].timer = Stop(@), !.schedules[w] = 0]
              ELSE st
     ELSE IF text \notin Durations THEN st
     ELSE IF k # 0 /\ st.scheds[k].duration = text
       THEN [st EXCEPT !.scheds[k].workflow = SnapshotOf(w, last)]
     ELSE LET st1 == IF k # 0 THEN [st EXCEPT !.scheds[k].timer = Stop(@)] ELSE st
              n == st.next
          IN IF n \in SchedIds
               THEN [st1 EXCEPT !.scheds[n] = scheduleWorkflow(w, text, elapsed),
                                !.schedules[w] = n,
                                !.next = n + 1]
               ELSE [st1 EXCEPT !.next = n + 1]

RECURSIVE LoadFrom(_, _, _, _)
LoadFrom(st, w, last, elapsed) ==
  IF w > NumWorkflows THEN st
  ELSE LoadFrom(LoadOne(st, w, last, elapsed), w + 1, last, elapsed)

\* loadWorkflows: the second loop: schedules whose workflow is no longer stored.
RemoveUnseen(st) ==
  LET gone == {w \in WfIds : st.schedules[w] # 0 /\ dbWorkflows[w] = "absent"}
      hit == {st.schedules[w] : w \in gone}
  IN [st EXCEPT
        !.scheds = [k \in SchedIds |->
                      IF k \in hit
                        THEN [st.scheds[k] EXCEPT
                                !.timer = Stop(@),
                                !.ctxDone = @ \/ st.scheds[k].cancelRun]
                        ELSE st.scheds[k]],
        !.schedules = [w \in WfIds |-> IF w \in gone THEN 0 ELSE st.schedules[w]]]

\* How long before the pass the completed_at values read in it can lie: any
\* time from none to a whole interval or more, when the pass installs a timer.
ElapsedChoices ==
  IF \E w \in WfIds :
       /\ dbWorkflows[w] \in Durations
       /\ schedules[w] = 0 \/ scheds[schedules[w]].duration # dbWorkflows[w]
    THEN 0..MaxDuration ELSE {0}

\* loadWorkflows, called by Start once after recoverRuns and then on every
\* tick of the 30 s ticker; the whole pass runs under s.mu.
loadWorkflows ==
  /\ schedPc \in {"load", "loop"}
  /\ \E elapsed \in ElapsedChoices :
       LET listed == {w \in WfIds : dbWorkflows[w] # "absent"}
           last == IF listed = {} THEN 0
                   ELSE CHOOSE w \in listed : \A v \in listed : v <= w
           st == RemoveUnseen(LoadFrom([scheds |-> scheds, schedules |-> schedules,
                                        next |-> nextSched], 1, last, elapsed))
       IN /\ st.next <= MaxScheds + 1
          /\ scheds' = st.scheds
          /\ schedules' = st.schedules
          /\ nextSched' = st.next
  /\ schedPc' = "loop"
  /\ UNCHANGED <<rootDone, loopVarShared, wg, dbWorkflows, dbRuns, nextRun, edits,
                 ext, recList, recIdx, startIncomplete>>
  /\ engineOff

\* --- timers and runWorkflow
\* Run ids still free for the Execute calls that are about to insert.
InsertsAhead ==
  Cardinality({k \in SchedIds : scheds[k].timer = "fired"
                                 \/ scheds[k].task \in {"launching", "starting"}})

\* A time.AfterFunc timer fires: runWorkflow(sched) starts and waits for s.mu.
TimerFire(k) ==
  /\ scheds[k].timer = "armed"
  /\ schedPc \in {"loop", "draining", "stopped"}
  /\ nextRun + InsertsAhead <= MaxRuns
  /\ scheds' = [scheds EXCEPT ![k].timer = "fired", ![k].delay = 0]
  /\ UNCHANGED <<schedPc, rootDone, loopVarShared, schedules, nextSched, wg,
                 dbWorkflows, dbRuns, nextRun, edits, ext, recList, recIdx,
                 startIncomplete>>
  /\ engineOff

\* runWorkflow, the part under s.mu: skip and re-arm when the schedule is
\* running, return when s.ctx is done, else mark it running with a new runCtx.
runWorkflow(k) ==
  /\ scheds[k].timer = "fired"
  /\ scheds' = [scheds EXCEPT ![k] =
       IF @.running
         THEN [@ EXCEPT !.timer = "armed", !.delay = Interval(@.duration)]
       ELSE IF rootDone
         THEN [@ EXCEPT !.timer = "none"]
       ELSE [@ EXCEPT !.timer = "none", !.running = TRUE, !.cancelRun = TRUE,
                      !.ctxDone = FALSE, !.task = "launching"]]
  /\ UNCHANGED <<schedPc, rootDone, loopVarShared, schedules, nextSched, wg,
                 dbWorkflows, dbRuns, nextRun, edits, ext, recList, recIdx,
                 startIncomplete>>
  /\ engineOff

\* runWorkflow after s.mu.Unlock(): s.wg.Add(1); go func() { ... }
TaskSpawn(k) ==
  /\ scheds[k].task = "launching"
  /\ wg' = wg + 1
  /\ scheds' = [scheds EXCEPT ![k].task = "starting"]
  /\ UNCHANGED <<schedPc, rootDone, loopVarShared, schedules, nextSched,
                 dbWorkflows, dbRuns, nextRun, edits, ext, recList, recIdx,
                 startIncomplete>>
  /\ engineOff

\* The task's ExecuteWorkflow(runCtx, sched.workflow, "scheduler"): InsertRun.
\* The insert fails on the foreign key when the workflow row is gone.
TaskInsertRun(k) ==
  /\ scheds[k].task = "starting"
  /\ IF dbWorkflows[scheds[k].workflow] = "absent"
       THEN /\ scheds' = [scheds EXCEPT ![k].task = "finishing"]
            /\ UNCHANGED <<dbRuns, nextRun>>
       ELSE /\ nextRun \in RunIds
            /\ dbRuns' = [dbRuns EXCEPT ![nextRun] =
                            [wf |-> scheds[k].workflow, status |-> RunStatusPending,
                             completedAt |-> "null", trigger |-> "scheduler"]]
            /\ nextRun' = nextRun + 1
            /\ scheds' = [scheds EXCEPT ![k].task = "pending", ![k].run = nextRun]
  /\ UNCHANGED <<schedPc, rootDone, loopVarShared, schedules, nextSched, wg,
                 dbWorkflows, edits, ext, recList, recIdx, startIncomplete>>
  /\ engineOff

\* The task's ExecuteWorkflow: UpdateRunStatus(runID, running, nil).
TaskSetRunning(k) ==
  /\ scheds[k].task = "pending"
  /\ dbRuns' = [dbRuns EXCEPT ![scheds[k].run] =
                  UpdateRunStatus(@, RunStatusRunning, "null")]
  /\ scheds' = [scheds EXCEPT ![k].task = "running"]
  /\ UNCHANGED <<schedPc, rootDone, loopVarShared, schedules, nextSched, wg,
                 dbWorkflows, nextRun, edits, ext, recList, recIdx, startIncomplete>>
  /\ engineOff

\* The task's ExecuteWorkflow: its last UpdateRunStatus (failed with a zero
\* time from the receive loop, or the computed status with now) and return.
TaskFinish(k) ==
  /\ scheds[k].task = "running"
  /\ \E st \in {RunStatusSuccess, RunStatusFailed}, at \in {"now", "zero"} :
       /\ (at = "zero") => (st = RunStatusFailed)
       /\ dbRuns' = [dbRuns EXCEPT ![scheds[k].run] = UpdateRunStatus(@, st, at)]
  /\ scheds' = [scheds EXCEPT ![k].task = "finishing"]
  /\ UNCHANGED <<schedPc, rootDone, loopVarShared, schedules, nextSched, wg,
                 dbWorkflows, nextRun, edits, ext, recList, recIdx, startIncomplete>>
  /\ engineOff

\* Mutant of TaskReturn: the deferred function clears the flags and arms no
\* timer.
TaskReturn_NoRearm(k) ==
  /\ scheds[k].task = "finishing"
  /\ scheds' = [scheds EXCEPT ![k] =
       [@ EXCEPT !.running = FALSE, !.cancelRun = FALSE, !.task = "none", !.run = 0]]
  /\ wg' = wg - 1
  /\ UNCHANGED <<schedPc, rootDone, loopVarShared, schedules, nextSched,
                 dbWorkflows, dbRuns, nextRun, edits, ext, recList, recIdx,
                 startIncomplete>>
  /\ engineOff

\* The task's deferred function under s.mu, then s.wg.Done().
TaskReturn(k) ==
  /\ scheds[k].task = "finishing"
  /\ scheds' = [scheds EXCEPT ![k] =
       [@ EXCEPT !.running = FALSE, !.cancelRun = FALSE, !.task = "none", !.run = 0,
                 !.timer = IF rootDone THEN @ ELSE "armed",
                 !.delay = IF rootDone THEN @ ELSE Interval(scheds[k].duration)]]
  /\ wg' = wg - 1
  /\ UNCHANGED <<schedPc, rootDone, loopVarShared, schedules, nextSched,
                 dbWorkflows, dbRuns, nextRun, edits, ext, recList, recIdx,
                 startIncomplete>>
  /\ engineOff

\* --- shutdown
\* The daemon's signal handler cancels the context Start was given.
RootCancel ==
  /\ ~rootDone
  /\ schedPc \in {"recover", "recovering", "load", "loop"}
  /\ rootDone' = TRUE
  /\ UNCHANGED <<schedPc, loopVarShared, schedules, scheds, nextSched, wg,
                 dbWorkflows, dbRuns, nextRun, edits, ext, recList, recIdx,
                 startIncomplete>>
  /\ engineOff

\* Start's select takes <-s.ctx.Done(): shutdown() stops the timers and
\* cancels the runs of the schedules in the map, under s.mu.
shutdown ==
  /\ schedPc = "loop"
  /\ rootDone
  /\ scheds' = [k \in SchedIds |->
                  IF \E w \in WfIds : schedules[w] = k
                    THEN [scheds[k] EXCEPT !.timer = Stop(@),
                                           !.ctxDone = @ \/ scheds[k].cancelRun]
                    ELSE scheds[k]]
  /\ schedPc' = "draining"
  /\ UNCHANGED <<rootDone, loopVarShared, schedules, nextSched, wg,
                 dbWorkflows, dbRuns, nextRun, edits, ext, recList, recIdx,
                 startIncomplete>>
  /\ engineOff

\* shutdown: s.wg.Wait() returns; Start returns.
shutdownDone ==
  /\ schedPc = "draining"
  /\ wg = 0
  /\ schedPc' = "stopped"
  /\ UNCHANGED <<rootDone, loopVarShared, schedules, scheds, nextSched, wg,
                 dbWorkflows, dbRuns, nextRun, edits, ext, recList, recIdx,
                 startIncomplete>>
  /\ engineOff

\* --- other processes on the store
\* InsertWorkflow (upsert by name) from the CLI: the schedule text changes.
EditWorkflow(w, text) ==
  /\ edits < MaxEdits
  /\ dbWorkflows[w] # text
  /\ dbWorkflows' = [dbWorkflows EXCEPT ![w] = text]
  /\ edits' = edits + 1
  /\ UNCHANGED <<schedPc, rootDone, loopVarShared, schedules, scheds, nextSched,
                 wg, dbRuns, nextRun, ext, recList, recIdx, startIncomplete>>
  /\ engineOff

\* DeleteWorkflow from the CLI: the workflow row and its runs go.
DeleteWorkflow(w) ==
  /\ edits < MaxEdits
  /\ dbWorkflows[w] # "absent"
  /\ dbWorkflows' = [dbWorkflows EXCEPT ![w] = "absent"]
  /\ dbRuns' = [r \in RunIds |-> IF dbRuns[r].wf = w THEN NoRunRow ELSE dbRuns[r]]
  /\ edits' = edits + 1
  /\ UNCHANGED <<schedPc, rootDone, loopVarShared, schedules, scheds, nextSched,
                 wg, nextRun, ext, recList, recIdx, startIncomplete>>
  /\ engineOff

\* The CLI run's ExecuteWorkflow: UpdateRunStatus(runID, running, nil).
ExtSetRunning ==
  /\ ext.pc = RunStatusPending
  /\ dbRuns' = [dbRuns EXCEPT ![ext.run] = UpdateRunStatus(@, RunStatusRunning, "null")]
  /\ ext' = [ext EXCEPT !.pc = RunStatusRunning]
  /\ UNCHANGED <<schedPc, rootDone, loopVarShared, schedules, scheds, nextSched,
                 wg, dbWorkflows, nextRun, edits, recList, recIdx, startIncomplete>>
  /\ engineOff

\* The CLI run's ExecuteWorkflow: its last UpdateRunStatus, and return.
ExtFinish ==
  /\ ext.pc = RunStatusRunning
  /\ \E st \in {RunStatusSuccess, RunStatusFailed} :
       dbRuns' = [dbRuns EXCEPT ![ext.run] = UpdateRunStatus(@, st, Clock)]
  /\ ext' = [ext EXCEPT !.pc = "done"]
  /\ UNCHANGED <<schedPc, rootDone, loopVarShared, schedules, scheds, nextSched,
                 wg, dbWorkflows, nextRun, edits, recList, recIdx, startIncomplete>>
  /\ engineOff

SchedNext ==
  \/ recoverRunsList
  \/ recoverRunsStep
  \/ loadWorkflows
  \/ \E k \in SchedIds : TimerFire(k)
  \/ \E k \in SchedIds : runWorkflow(k)
  \/ \E k \in SchedIds : TaskSpawn(k)
  \/ \E k \in SchedIds : TaskInsertRun(k)
  \/ \E k \in SchedIds : TaskSetRunning(k)
  \/ \E k \in SchedIds : TaskFinish(k)
  \/ \E k \in SchedIds : TaskReturn(k)
  \/ RootCancel
  \/ shutdown
  \/ shutdownDone
  \/ \E w \in WfIds, text \in ScheduleTexts : EditWorkflow(w, text)
  \/ \E w \in WfIds : DeleteWorkflow(w)
  \/ ExtSetRunning
  \/ ExtFinish

SchedSpec == SchedInit /\ [][SchedNext]_vars

\* ================================================ calculateInitialDelay
DelayInit ==
  /\ EngineOff
  /\ SchedIdle
  /\ LibOff
  /\ delayIn \in [runs : RunTables, duration : 1..MaxDuration, now : 0..MaxTime]
  /\ delayOut = -1

\* scheduleWorkflow: initialDelay := s.calculateInitialDelay(w, duration)
DelayCall ==
  /\ delayOut = -1
  /\ delayIn.duration > 0
  /\ delayOut' = calculateInitialDelay(ListRuns(delayIn.runs), delayIn.duration,
                                       delayIn.now)
  /\ UNCHANGED <<delayIn, engineVars, schedOwnVars, libVars>>

DelayNext == DelayCall

DelaySpec == DelayInit /\ [][DelayNext]_vars

\* ============================================ step data: outputs and inputs
\* A string is the sequence of its characters. The characters of the model:
\* a marker character, a value character and the blank; the prefixes of the
\* runner's structured lines and the extraction rules' keywords are one
\* character each.
Chars == {"k", "v", " "}

\* Bounds: the longest plain log line, and the most lines in a step's logs.
MaxLineLen == 2

MaxLogs == 2

\* All strings over cs of at most n characters.
RECURSIVE StringsUpTo(_, _)
StringsUpTo(cs, n) ==
  IF n = 0 THEN {<<>>}
  ELSE LET shorter == StringsUpTo(cs, n - 1)
       IN shorter \cup {Append(s, c) : s \in shorter, c \in cs}

Hello == <<"h", "e", "l", "l", "o">>

Greeting == <<"g", "r", "e", "e", "t", "i", "n", "g">>

StepA == <<"A">>

StepB == <<"B">>

\* strings.TrimSpace
RECURSIVE TrimLeft(_)
TrimLeft(s) == IF s # <<>> /\ Head(s) = " " THEN TrimLeft(Tail(s)) ELSE s

RECURSIVE TrimRight(_)
TrimRight(s) ==
  IF s # <<>> /\ s[Len(s)] = " " THEN TrimRight(SubSeq(s, 1, Len(s) - 1)) ELSE s

TrimSpace(s) == TrimRight(TrimLeft(s))

\* strings.HasPrefix / strings.TrimPrefix
HasPrefix(s, prefix) ==
  Len(s) >= Len(prefix) /\ SubSeq(s, 1, Len(prefix)) = prefix

TrimPrefix(s, prefix) ==
  IF HasPrefix(s, prefix) THEN SubSeq(s, Len(prefix) + 1, Len(s)) ELSE s

\* strings.Index: the position (from 0) of the first occurrence, or -1.
Index(s, substr) ==
  LET hits == {i \in 0..(Len(s) - Len(substr)) :
                 SubSeq(s, i + 1, i + Len(substr)) = substr}
  IN IF hits = {} THEN -1 ELSE CHOOSE i \in hits : \A j \in hits : i <= j

\* strings.Join(logs, "\n")
RECURSIVE Join(_)
Join(lines) ==
  IF lines = <<>> THEN <<>>
  ELSE IF Len(lines) = 1 THEN lines[1]
  ELSE lines[1] \o <<"\n">> \o Join(Tail(lines))

\* strings.ToLower on the header names of the model.
ToLower(s) == [i \in DOMAIN s |-> IF s[i] = "K" THEN "k" ELSE s[i]]

HttpStatusPrefix == <<"HTTP_STATUS:">>

HttpBodyPrefix == <<"HTTP_BODY:">>

HttpHeaderPrefix == <<"HTTP_HEADER_">>

\* What follows a structured prefix in the lines of the model: nothing, a
\* number, a word.
Bodies == {<<>>, <<"7">>, <<"v">>}

\* The log lines of the model: plain lines, a marker with a blank before its
\* value, the structured lines an HTTP step (or any step that prints them)
\* produces, and the line of `echo hello`.
Lines ==
  StringsUpTo(Chars, MaxLineLen)
    \cup {<<"k", " ", "v">>}
    \cup {HttpStatusPrefix \o b : b \in Bodies}
    \cup {HttpBodyPrefix \o b : b \in Bodies}
    \cup {HttpHeaderPrefix \o <<"K", ":">> \o b : b \in Bodies}
    \cup {HttpHeaderPrefix \o <<"K">>}
    \cup {Hello}

LogSets == UNION {[1..n -> Lines] : n \in 0..MaxLogs}

\* The extraction rules of the model: one of each keyword rule, and the plain
\* literals.
JsonPathRule == <<"json_path:", "$", ".">>

RegexRule == <<"regex:", "v", "*">>

BodyRule == <<"body">>

StatusRule == <<"status">>

FullOutputRule == <<"full_output">>

Literals == (StringsUpTo(Chars, 2) \ {<<>>}) \cup {Hello}

Rules == {JsonPathRule, RegexRule, BodyRule, StatusRule, FullOutputRule}
           \cup Literals

\* Mutant of StoreStepData: a plain INSERT into a table without the UNIQUE
\* constraint on (run_id, step_name, key).
StoreStepData_AppendsRow(rows, runs, runID, stepName, key, value, n) ==
  IF runID <= 0 THEN [err |-> "invalid run ID", rows |-> rows]
  ELSE IF TrimSpace(stepName) = <<>>
    THEN [err |-> "step name cannot be empty", rows |-> rows]
  ELSE IF TrimSpace(key) = <<>>
    THEN [err |-> "key cannot be empty", rows |-> rows]
  ELSE IF n > 10000 THEN [err |-> "value too large", rows |-> rows]
  ELSE IF runID \notin runs
    THEN [err |-> "failed to store step data", rows |-> rows]
  ELSE [err |-> "nil",
        rows |-> rows \cup {[run |-> runID, step |-> stepName, key |-> key,
                             value |-> value]}]

\* DB.StoreStepData(runID, stepName, key, value) on the rows of step_data;
\* runs are the ids of the runs table (step_data.run_id is a foreign key, and
\* the connection enforces foreign keys), n is len(value).
StoreStepData(rows, runs, runID, stepName, key, value, n) ==
  IF runID <= 0 THEN [err |-> "invalid run ID", rows |-> rows]
  ELSE IF TrimSpace(stepName) = <<>>
    THEN [err |-> "step name cannot be empty", rows |-> rows]
  ELSE IF TrimSpace(key) = <<>>
    THEN [err |-> "key cannot be empty", rows |-> rows]
  ELSE IF n > 10000 THEN [err |-> "value too large", rows |-> rows]
  ELSE IF runID \notin runs
    THEN [err |-> "failed to store step data", rows |-> rows]
  ELSE [err |-> "nil",
        rows |-> {r \in rows : ~(/\ r.run = runID
                                 /\ r.step = stepName
                                 /\ r.key = key)}
                   \cup {[run |-> runID, step |-> stepName, key |-> key,
                          value |-> value]}]

\* DB.GetAllStepData(runID): step name -> key -> value.
GetAllStepData(rows, runID) ==
  LET mine == {r \in rows : r.run = runID}
  IN [s \in {r.step : r \in mine} |->
        [k \in {r.key : r \in {q \in mine : q.step = s}} |->
           (CHOOSE r \in mine : r.step = s /\ r.key = k).value]]

\* The first phase of storeStepOutputs, for one log line: the key and value
\* it stores for a structured line (key <<>>: the line stores nothing).
HttpOutput(log) ==
  IF HasPrefix(log, HttpStatusPrefix)
    THEN [key |-> <<"status">>, value |-> TrimPrefix(log, HttpStatusPrefix)]
  ELSE IF HasPrefix(log, HttpBodyPrefix)
    THEN [key |-> <<"body">>, value |-> TrimPrefix(log, HttpBodyPrefix)]
  ELSE IF HasPrefix(log, HttpHeaderPrefix)
    THEN LET rest == TrimPrefix(log, HttpHeaderPrefix)
             idx == Index(rest, <<":">>)
         IN IF idx >= 0
              THEN [key |-> <<"header_">> \o ToLower(SubSeq(rest, 1, idx)),
                    value |-> SubSeq(rest, idx + 2, Len(rest))]
              ELSE [key |-> <<>>, value |-> <<>>]
  ELSE [key |-> <<>>, value |-> <<>>]

\* The first loop of storeStepOutputs: a StoreStepData for every structured
\* line, in log order; the first error ends it.
RECURSIVE StoreHttpOutputs(_, _, _, _, _)
StoreHttpOutputs(rows, runs, runID, stepName, logs) ==
  IF logs = <<>> THEN [err |-> "nil", rows |-> rows]
  ELSE LET out == HttpOutput(Head(logs))
       IN IF out.key = <<>>
            THEN StoreHttpOutputs(rows, runs, runID, stepName, Tail(logs))
            ELSE LET res == StoreStepData(rows, runs, runID, stepName, out.key,
                                          out.value, Len(out.value))
                 IN IF res.err # "nil" THEN res
                    ELSE StoreHttpOutputs(res.rows, runs, runID, stepName,
                                          Tail(logs))

\* The first line with the prefix, without the prefix (<<>> when none has it).
RECURSIVE FirstWithPrefix(_, _)
FirstWithPrefix(logs, prefix) ==
  IF logs = <<>> THEN <<>>
  ELSE IF HasPrefix(Head(logs), prefix) THEN TrimPrefix(Head(logs), prefix)
  ELSE FirstWithPrefix(Tail(logs), prefix)

\* extractJSONPath(body, "$.") on the bodies of the model: a number is
\* rendered as it is, everything else is not JSON (an error, value "").
ExtractJSONPath(body) == IF body = <<"7">> THEN body ELSE <<>>

\* regexp `v*` on the joined logs: the leftmost match is the run of v at the
\* start of the text, which may be empty.
RECURSIVE LeadingRun(_)
LeadingRun(s) ==
  IF s # <<>> /\ Head(s) = "v" THEN <<"v">> \o LeadingRun(Tail(s)) ELSE <<>>

\* Mutant of LiteralValue: every matching line overwrites the value, the
\* loop does not stop at the first non-empty one.
RECURSIVE LiteralValue_NoBreak(_, _, _)
LiteralValue_NoBreak(logs, outputSpec, value) ==
  IF logs = <<>> THEN value
  ELSE LET log == Head(logs)
           idx == Index(log, outputSpec)
       IN IF idx >= 0
            THEN LiteralValue_NoBreak(
                   Tail(logs), outputSpec,
                   TrimSpace(SubSeq(log, idx + Len(outputSpec) + 1, Len(log))))
            ELSE LiteralValue_NoBreak(Tail(logs), outputSpec, value)

\* The default case of storeStepOutputs' switch: the loop over the logs with
\* `value = strings.TrimSpace(log[idx+len(outputSpec):]); if value != "" {break}`.
RECURSIVE LiteralValue(_, _, _)
LiteralValue(logs, outputSpec, value) ==
  IF logs = <<>> THEN value
  ELSE LET log == Head(logs)
           idx == Index(log, outputSpec)
       IN IF idx >= 0
            THEN LET v == TrimSpace(SubSeq(log, idx + Len(outputSpec) + 1,
                                           Len(log)))
                 IN IF v # <<>> THEN v
                    ELSE LiteralValue(Tail(logs), outputSpec, v)
            ELSE LiteralValue(Tail(logs), outputSpec, value)

\* Mutant of OutputValue: a plain literal yields the line from the literal
\* on, the literal included.
OutputValue_KeepsLiteral(outputSpec, logs) ==
  IF outputSpec \in {JsonPathRule, RegexRule, BodyRule, StatusRule, FullOutputRule}
    THEN <<>>
    ELSE LET hits == {i \in DOMAIN logs : Index(logs[i], outputSpec) >= 0}
         IN IF hits = {} THEN <<>>
            ELSE LET i == CHOOSE h \in hits : \A g \in hits : h <= g
                 IN TrimSpace(SubSeq(logs[i], Index(logs[i], outputSpec) + 1,
                                     Len(logs[i])))

\* The switch of storeStepOutputs: the value of one output rule.
OutputValue(outputSpec, logs) ==
  IF HasPrefix(outputSpec, <<"json_path:">>)
    THEN ExtractJSONPath(FirstWithPrefix(logs, HttpBodyPrefix))
  ELSE IF HasPrefix(outputSpec, <<"regex:">>) THEN LeadingRun(Join(logs))
  ELSE IF outputSpec = BodyRule THEN FirstWithPrefix(logs, HttpBodyPrefix)
  ELSE IF outputSpec = StatusRule THEN FirstWithPrefix(logs, HttpStatusPrefix)
  ELSE IF outputSpec = FullOutputRule THEN Join(logs)
  ELSE LiteralValue(logs, outputSpec, <<>>)

\* The second loop of storeStepOutputs, over step.Outputs: a StoreStepData for
\* every output whose value is not empty.
RECURSIVE StoreDeclaredOutputs(_, _, _, _, _, _)
StoreDeclaredOutputs(rows, runs, runID, stepName, outputs, logs) ==
  IF DOMAIN outputs = {} THEN [err |-> "nil", rows |-> rows]
  ELSE LET outputKey == CHOOSE k \in DOMAIN outputs : TRUE
           value == OutputValue(outputs[outputKey], logs)
           rest == [k \in DOMAIN outputs \ {outputKey} |-> outputs[k]]
       IN IF value # <<>>
            THEN LET res == StoreStepData(rows, runs, runID, stepName,
                                          outputKey, value, Len(value))
                 IN IF res.err # "nil" THEN res
                    ELSE StoreDeclaredOutputs(res.rows, runs, runID, stepName,
                                              rest, logs)
            ELSE StoreDeclaredOutputs(rows, runs, runID, stepName, rest, logs)

\* Engine.storeStepOutputs(runID, step, logs)
storeStepOutputs(rows, runs, runID, stepName, outputs, logs) ==
  LET first == StoreHttpOutputs(rows, runs, runID, stepName, logs)
  IN IF first.err # "nil" THEN first
     ELSE StoreDeclaredOutputs(first.rows, runs, runID, stepName, outputs, logs)

\* Mutant of resolveStepInputs: an input whose source is missing is left out
\* of the env and no error is returned.
resolveStepInputs_SkipsMissing(rows, runID, inputs, env) ==
  LET found == GetAllStepData(rows, runID)
      ok == {k \in DOMAIN inputs :
               /\ inputs[k].src \in DOMAIN found
               /\ inputs[k].key \in DOMAIN found[inputs[k].src]}
  IN [err |-> "nil",
      env |-> [k \in DOMAIN env \cup ok |->
                 IF k \in ok THEN found[inputs[k].src][inputs[k].key]
                 ELSE env[k]]]

\* Engine.resolveStepInputs(runID, step): the error, and resolvedStep.Env.
RECURSIVE resolveStepInputs(_, _, _, _)
resolveStepInputs(rows, runID, inputs, env) ==
  IF DOMAIN inputs = {} THEN [err |-> "nil", env |-> env]
  ELSE LET stepOutputsOf == GetAllStepData(rows, runID)
           inputKey == CHOOSE k \in DOMAIN inputs : TRUE
           sourceStep == inputs[inputKey].src
           keyName == inputs[inputKey].key
           rest == [k \in DOMAIN inputs \ {inputKey} |-> inputs[k]]
       IN IF sourceStep \in DOMAIN stepOutputsOf
            THEN IF keyName \in DOMAIN stepOutputsOf[sourceStep]
                   THEN resolveStepInputs(
                          rows, runID, rest,
                          [k \in DOMAIN env \cup {inputKey} |->
                             IF k = inputKey THEN stepOutputsOf[sourceStep][keyName]
                             ELSE env[k]])
                   ELSE [err |-> "non-existent output", env |-> env]
            ELSE [err |-> "non-existent step", env |-> env]

\* --- one run of the chain A -> B
\* Step B's Inputs in the model: none, the output step A declares, a key step
\* A does not declare, a step that is not in the run's step data.
InputChoices ==
  {<<>>}
    \cup {[m \in {"MSG"} |-> [src |-> s, key |-> k]] :
            s \in {StepA, <<"Z">>}, k \in {Greeting, <<"x">>}}

\* ExecuteWorkflow has inserted run 1 and set it running; step A has no
\* dependency and no retries, step B depends on A.
DataInit ==
  /\ EngineOff
  /\ SchedIdle
  /\ DelayOff
  /\ AppendOff
  /\ StoreOff
  /\ RetryOff
  /\ ValidateOff
  /\ WorkerOff
  /\ dLogs \in LogSets
  /\ dOutputs \in {<<>>} \cup {[k \in {Greeting} |-> r] : r \in Rules}
  /\ dInputs \in InputChoices
  /\ dPc = "runA"
  /\ dData = {}
  /\ dStepRuns = [s \in {StepA, StepB} |-> "none"]
  /\ dInvoked = {}
  /\ dEnv = <<>>
  /\ dErr = "none"
  /\ dRun = RunStatusRunning

dataOff ==
  UNCHANGED <<engineVars, schedOwnVars, delayVars, appendVars, storeVars, retryVars,
              validateVars, workerVars>>

\* executeStep(A) up to the branch on the runner's error: InsertStepRun,
\* UpdateStepRun(running), runner.RunStep; a failure is terminal (no retries).
DataRunA ==
  /\ dPc = "runA"
  /\ dInvoked' = dInvoked \cup {StepA}
  /\ \/ /\ dStepRuns' = [dStepRuns EXCEPT ![StepA] = StepStatusRunning]
        /\ dPc' = "storeA"
        /\ dErr' = dErr
     \/ /\ dStepRuns' = [dStepRuns EXCEPT ![StepA] = StepStatusFailed]
        /\ dPc' = "markFailed"
        /\ dErr' = "step A failed"
  /\ UNCHANGED <<dLogs, dOutputs, dInputs, dData, dEnv, dRun>>
  /\ dataOff

\* executeStep(A), err == nil: storeStepOutputs, UpdateStepRun(success),
\* close(doneChans[A]).
DataStoreA ==
  /\ dPc = "storeA"
  /\ LET res == storeStepOutputs(dData, {1}, 1, StepA, dOutputs, dLogs)
     IN /\ dData' = res.rows
        /\ IF res.err = "nil"
             THEN /\ dStepRuns' = [dStepRuns EXCEPT ![StepA] = StepStatusSuccess]
                  /\ dPc' = "resolveB"
                  /\ dErr' = dErr
             ELSE /\ dStepRuns' = dStepRuns
                  /\ dPc' = "markFailed"
                  /\ dErr' = "failed to store step outputs"
  /\ UNCHANGED <<dLogs, dOutputs, dInputs, dInvoked, dEnv, dRun>>
  /\ dataOff

\* executeStep(B) once A's channel is closed: resolveStepInputs; on an error
\* the worker sends it and returns, otherwise InsertStepRun and
\* UpdateStepRun(running).
DataResolveB ==
  /\ dPc = "resolveB"
  /\ LET res == resolveStepInputs(dData, 1, dInputs, <<>>)
     IN IF res.err = "nil"
          THEN /\ dEnv' = res.env
               /\ dStepRuns' = [dStepRuns EXCEPT ![StepB] = StepStatusRunning]
               /\ dPc' = "runB"
               /\ dErr' = dErr
          ELSE /\ dEnv' = dEnv
               /\ dStepRuns' = dStepRuns
               /\ dPc' = "markFailed"
               /\ dErr' = res.err
  /\ UNCHANGED <<dLogs, dOutputs, dInputs, dData, dInvoked, dRun>>
  /\ dataOff

\* executeStep(B): runner.RunStep(resolvedStep) and the terminal update.
DataRunB ==
  /\ dPc = "runB"
  /\ dInvoked' = dInvoked \cup {StepB}
  /\ \/ /\ dStepRuns' = [dStepRuns EXCEPT ![StepB] = StepStatusSuccess]
        /\ dPc' = "final"
        /\ dErr' = dErr
     \/ /\ dStepRuns' = [dStepRuns EXCEPT ![StepB] = StepStatusFailed]
        /\ dPc' = "markFailed"
        /\ dErr' = "step B failed"
  /\ UNCHANGED <<dLogs, dOutputs, dInputs, dData, dEnv, dRun>>
  /\ dataOff

\* ExecuteWorkflow received an error: UpdateRunStatus(failed); return run, err.
DataMarkFailed ==
  /\ dPc = "markFailed"
  /\ dRun' = RunStatusFailed
  /\ dPc' = "returned"
  /\ UNCHANGED <<dLogs, dOutputs, dInputs, dData, dStepRuns, dInvoked, dEnv, dErr>>
  /\ dataOff

\* ExecuteWorkflow received nil from both workers: GetStepRuns, the final
\* UpdateRunStatus; return run, nil.
DataFinal ==
  /\ dPc = "final"
  /\ dRun' = IF \E s \in DOMAIN dStepRuns :
                  dStepRuns[s] \in {StepStatusFailed, StepStatusTimeout}
               THEN RunStatusFailed ELSE RunStatusSuccess
  /\ dErr' = "nil"
  /\ dPc' = "returned"
  /\ UNCHANGED <<dLogs, dOutputs, dInputs, dData, dStepRuns, dInvoked, dEnv>>
  /\ dataOff

DataNext ==
  \/ DataRunA
  \/ DataStoreA
  \/ DataResolveB
  \/ DataRunB
  \/ DataMarkFailed
  \/ DataFinal

DataSpec == DataInit /\ [][DataNext]_vars

\* ============================================================ DB.AppendLogs
\* retryDBOperation: maxRetries := 5
maxRetries == 5

\* Bound: the callers that append to the same step_runs row at a time.
NumCallers == 2

Callers == 1..NumCallers

\* The line a caller appends (one per caller, so that it can be told apart).
LineOf(c) == IF c = 1 THEN "a" ELSE "b"

appendOff ==
  UNCHANGED <<engineVars, schedOwnVars, delayVars, dataVars, storeVars, retryVars,
              validateVars, workerVars>>

AppendInit ==
  /\ EngineOff
  /\ SchedIdle
  /\ DelayOff
  /\ DataOff
  /\ StoreOff
  /\ RetryOff
  /\ ValidateOff
  /\ WorkerOff
  /\ aLogs \in {<<>>, <<"x">>}
  /\ aArg \in [Callers -> {<<>>, <<"a">>, <<"b">>, <<"a", "a">>, <<"b", "b">>}]
  /\ \A c \in Callers : aArg[c] \in {<<LineOf(c)>>, <<LineOf(c), LineOf(c)>>}
  /\ aPc = [c \in Callers |-> "select"]
  /\ aRead = [c \in Callers |-> <<>>]
  /\ aTry = [c \in Callers |-> 0]
  /\ aErr = [c \in Callers |-> "none"]

\* AppendLogs, the operation: SELECT logs FROM step_runs WHERE id = ?, and
\* the Unmarshal into currentLogs.
AppendSelect(c) ==
  /\ aPc[c] = "select"
  /\ aRead' = [aRead EXCEPT ![c] = aLogs]
  /\ aPc' = [aPc EXCEPT ![c] = "update"]
  /\ UNCHANGED <<aLogs, aArg, aTry, aErr>>
  /\ appendOff

\* AppendLogs, the operation: currentLogs = append(currentLogs, logs...);
\* UPDATE step_runs SET logs = ? WHERE id = ?.
AppendUpdate(c) ==
  /\ aPc[c] = "update"
  /\ aLogs' = aRead[c] \o aArg[c]
  /\ aPc' = [aPc EXCEPT ![c] = "done"]
  /\ aErr' = [aErr EXCEPT ![c] = "nil"]
  /\ UNCHANGED <<aArg, aRead, aTry>>
  /\ appendOff

\* AppendLogs, the operation: the UPDATE finds the database locked by another
\* caller (SQLITE_BUSY); retryDBOperation runs the operation again, SELECT
\* included, or gives up at the last attempt.
AppendBusy(c) ==
  /\ aPc[c] = "update"
  /\ \E o \in Callers : o # c /\ aPc[o] # "done"
  /\ IF aTry[c] < maxRetries - 1
       THEN /\ aTry' = [aTry EXCEPT ![c] = aTry[c] + 1]
            /\ aPc' = [aPc EXCEPT ![c] = "select"]
            /\ aErr' = aErr
       ELSE /\ aTry' = aTry
            /\ aPc' = [aPc EXCEPT ![c] = "done"]
            /\ aErr' = [aErr EXCEPT ![c] = "SQLITE_BUSY"]
  /\ UNCHANGED <<aLogs, aArg, aRead>>
  /\ appendOff

AppendNext ==
  \/ \E c \in Callers : AppendSelect(c)
  \/ \E c \in Callers : AppendUpdate(c)
  \/ \E c \in Callers : AppendBusy(c)

AppendSpec == AppendInit /\ [][AppendNext]_vars

\* ================================================================ the store
\* Bounds of the store model: workflow ids (AUTOINCREMENT), InsertWorkflow
\* calls, runs rows, step_runs rows.
MaxWorkflowIds == 2

MaxInserts == 2

MaxRunRows == 2

MaxStepRunRows == 1

WorkflowNames == {"n1", "n2"}

\* Workflow.Steps as handed to InsertWorkflow: a nil slice or a list of steps.
StepLists == {"nil", "s1"}

\* What InsertWorkflow is called with, name apart.
WorkflowContents ==
  {[description |-> "", schedule |-> "", steps |-> "nil"],
   [description |-> "d", schedule |-> "30s", steps |-> "s1"]}

\* json.Marshal(w.Steps) and json.Unmarshal([]byte(stepsJSON), &w.Steps)
MarshalSteps(steps) == IF steps = "nil" THEN <<"null">> ELSE <<"[", steps, "]">>

UnmarshalSteps(stepsJSON) == IF stepsJSON = <<"null">> THEN "nil" ELSE stepsJSON[2]

\* Mutant of InsertWorkflow: a plain INSERT OR REPLACE that names neither the
\* id nor created_at of the row it replaces.
InsertWorkflow_FreshRow(rows, seq, now, name, w) ==
  [rows |-> {x \in rows : x.name # name}
              \cup {[id |-> seq + 1, name |-> name,
                     description |-> w.description, schedule |-> w.schedule,
                     steps |-> MarshalSteps(w.steps),
                     createdAt |-> now, updatedAt |-> now]},
   seq |-> seq + 1]

\* DB.InsertWorkflow on the rows of workflows: INSERT OR REPLACE with
\* id = (SELECT id WHERE name = ?) and created_at = (SELECT created_at WHERE
\* name = ?); a NULL id takes the next AUTOINCREMENT value, a NULL created_at
\* the column's default, the current time.
InsertWorkflow(rows, seq, now, name, w) ==
  LET old == {x \in rows : x.name = name}
      id == IF old = {} THEN seq + 1 ELSE (CHOOSE x \in old : TRUE).id
      createdAt == IF old = {} THEN now ELSE (CHOOSE x \in old : TRUE).createdAt
  IN [rows |-> {x \in rows : x.name # name /\ x.id # id}
                 \cup {[id |-> id, name |-> name,
                        description |-> w.description, schedule |-> w.schedule,
                        steps |-> MarshalSteps(w.steps),
                        createdAt |-> createdAt, updatedAt |-> now]},
      seq |-> IF id > seq THEN id ELSE seq]

\* DB.GetWorkflowByName
GetWorkflowByName(rows, name) ==
  LET found == {x \in rows : x.name = name}
  IN IF found = {} THEN [err |-> "failed to get workflow"]
     ELSE LET x == CHOOSE y \in found : TRUE
          IN [err |-> "nil", id |-> x.id, name |-> x.name,
              description |-> x.description, schedule |-> x.schedule,
              steps |-> UnmarshalSteps(x.steps),
              createdAt |-> x.createdAt, updatedAt |-> x.updatedAt]

\* --- the delete cascades
\* Mutant of CascadeOrder: the runs are deleted first.
CascadeOrder_RunsFirst == <<"runs", "stepData", "stepRuns", "workflow">>

\* The order of the DELETE statements of DeleteWorkflow and ResetAllData.
CascadeOrder == <<"stepData", "stepRuns", "runs", "workflow">>

\* The runs a cascade is about: those of workflow id, or all (id 0, ResetAllData).
CascadeRuns(S, id) == {r.id : r \in {x \in S.runs : id = 0 \/ x.wf = id}}

\* One DELETE statement of a cascade on the store S. The connection enforces
\* foreign keys: a DELETE that would leave a row referring to a deleted one
\* fails and changes nothing.
DeletePhase(S, phase, id) ==
  CASE phase = "stepData" ->
         [err |-> "nil",
          store |-> [S EXCEPT !.stepData =
                       {d \in @ : id # 0 /\ d.run \notin CascadeRuns(S, id)}]]
    [] phase = "stepRuns" ->
         [err |-> "nil",
          store |-> [S EXCEPT !.stepRuns =
                       {sr \in @ : id # 0 /\ sr.run \notin CascadeRuns(S, id)}]]
    [] phase = "runs" ->
         IF \/ \E sr \in S.stepRuns : sr.run \in CascadeRuns(S, id)
            \/ \E d \in S.stepData : d.run \in CascadeRuns(S, id)
           THEN [err |-> "FOREIGN KEY constraint failed", store |-> S]
           ELSE [err |-> "nil",
                 store |-> [S EXCEPT !.runs =
                              {r \in @ : r.id \notin CascadeRuns(S, id)}]]
    [] phase = "workflow" ->
         IF \E r \in S.runs : id = 0 \/ r.wf = id
           THEN [err |-> "FOREIGN KEY constraint failed", store |-> S]
           ELSE [err |-> "nil",
                 store |-> [S EXCEPT !.workflows =
                              {x \in @ : id # 0 /\ x.id # id}]]

\* DB.DeleteWorkflow(id) (id 0: DB.ResetAllData) run from its first statement
\* to its return, with nothing else at work on the store.
RECURSIVE Cascade(_, _, _)
Cascade(S, phases, id) ==
  IF phases = <<>> THEN [err |-> "nil", store |-> S]
  ELSE LET res == DeletePhase(S, Head(phases), id)
       IN IF res.err # "nil" THEN res ELSE Cascade(res.store, Tail(phases), id)

\* Mutant of DBDeleteWorkflow: the DELETE of the runs is left out.
DBDeleteWorkflow_KeepsRuns(S, id) ==
  Cascade(S, <<"stepData", "stepRuns", "workflow">>, id)

DBDeleteWorkflow(S, id) == Cascade(S, CascadeOrder, id)

\* Every reference of S leads to a row.
Referential(S) ==
  /\ \A d \in S.stepData : \E r \in S.runs : r.id = d.run
  /\ \A sr \in S.stepRuns : \E r \in S.runs : r.id = sr.run
  /\ \A r \in S.runs : \E x \in S.workflows : x.id = r.wf

\* Nothing of workflow id is left in S (id 0: nothing at all).
Clean(S, id) ==
  /\ \A x \in S.workflows : id # 0 /\ x.id # id
  /\ \A r \in S.runs : id # 0 /\ r.wf # id
  /\ \A sr \in S.stepRuns : \E r \in S.runs : r.id = sr.run
  /\ \A d \in S.stepData : \E r \in S.runs : r.id = d.run

\* The four tables as one value.
Store ==
  [workflows |-> tWorkflows, runs |-> tRuns, stepRuns |-> tStepRuns,
   stepData |-> tStepData]

\* A short value StoreStepData is called with: its characters and len(value),
\* its bytes.
ShortValue == [value |-> <<"v">>, chars |-> 1, n |-> 1]

\* The calls of StoreStepData in the store model: the calls with arguments the
\* function takes, and calls with one argument out of the ordinary (a
\* non-positive run id, an empty or blank name, a value of 10001 one-byte
\* characters, a value of 6000 two-byte characters).
StepDataCalls ==
  [run : 1..MaxRunRows, step : {StepA}, key : {Greeting},
   v : {[value |-> <<>>, chars |-> 0, n |-> 0], ShortValue,
        [value |-> <<"long">>, chars |-> 10000, n |-> 10000]}]
    \cup [run : {-1, 0}, step : {StepA}, key : {Greeting}, v : {ShortValue}]
    \cup [run : {1}, step : {<<>>, <<" ">>}, key : {Greeting}, v : {ShortValue}]
    \cup [run : {1}, step : {StepA}, key : {<<>>, <<" ">>}, v : {ShortValue}]
    \cup [run : {1}, step : {StepA}, key : {Greeting},
          v : {[value |-> <<"longer">>, chars |-> 10001, n |-> 10001],
               [value |-> <<"wide">>, chars |-> 6000, n |-> 12000]}]

storeOff ==
  UNCHANGED <<engineVars, schedOwnVars, delayVars, dataVars, appendVars, retryVars,
              validateVars, workerVars>>

StoreInit ==
  /\ EngineOff
  /\ SchedIdle
  /\ DelayOff
  /\ DataOff
  /\ AppendOff
  /\ RetryOff
  /\ ValidateOff
  /\ WorkerOff
  /\ tWorkflows = {}
  /\ tRuns = {}
  /\ tStepRuns = {}
  /\ tStepData = {}
  /\ tSeq = 0
  /\ tClock = 0
  /\ tLast = [n \in WorkflowNames |-> "none"]
  /\ delPc = 0
  /\ delId = 0
  /\ tAborted = -1
  /\ tCall = [op |-> "none"]

\* A caller's InsertWorkflow(w).
DBInsertWorkflow(name, w) ==
  /\ tClock < MaxInserts
  /\ LET res == InsertWorkflow(tWorkflows, tSeq, tClock + 1, name, w)
     IN /\ res.seq <= MaxWorkflowIds
        /\ tWorkflows' = res.rows
        /\ tSeq' = res.seq
  /\ tClock' = tClock + 1
  /\ tLast' = [tLast EXCEPT ![name] = w]
  /\ tCall' = [op |-> "InsertWorkflow", name |-> name]
  /\ UNCHANGED <<tRuns, tStepRuns, tStepData, delPc, delId, tAborted>>
  /\ storeOff

\* A caller's InsertRun for workflow id wf; runs.workflow_id is a foreign key.
DBInsertRun(wid) ==
  /\ Cardinality(tRuns) < MaxRunRows
  /\ LET id == Cardinality(tRuns) + 1
     IN IF \E x \in tWorkflows : x.id = wid
          THEN /\ id \notin {r.id : r \in tRuns}
               /\ tRuns' = tRuns \cup {[id |-> id, wf |-> wid]}
               /\ tCall' = [op |-> "InsertRun", err |-> "nil"]
          ELSE /\ tRuns' = tRuns
               /\ tCall' = [op |-> "InsertRun",
                            err |-> "FOREIGN KEY constraint failed"]
  /\ UNCHANGED <<tWorkflows, tStepRuns, tStepData, tSeq, tClock, tLast, delPc,
                 delId, tAborted>>
  /\ storeOff

\* A caller's InsertStepRun for run id run; step_runs.run_id is a foreign key.
DBInsertStepRun(run) ==
  /\ Cardinality(tStepRuns) < MaxStepRunRows
  /\ IF \E r \in tRuns : r.id = run
       THEN /\ tStepRuns' = tStepRuns
                              \cup {[id |-> Cardinality(tStepRuns) + 1, run |-> run]}
            /\ tCall' = [op |-> "InsertStepRun", err |-> "nil"]
       ELSE /\ tStepRuns' = tStepRuns
            /\ tCall' = [op |-> "InsertStepRun",
                         err |-> "FOREIGN KEY constraint failed"]
  /\ UNCHANGED <<tWorkflows, tRuns, tStepData, tSeq, tClock, tLast, delPc, delId,
                 tAborted>>
  /\ storeOff

\* A caller's StoreStepData(runID, stepName, key, value).
DBStoreStepData(runID, stepName, key, v) ==
  /\ LET res == StoreStepData(tStepData, {r.id : r \in tRuns}, runID, stepName,
                              key, v.value, v.n)
     IN /\ tStepData' = res.rows
        /\ tCall' = [op |-> "StoreStepData", run |-> runID, step |-> stepName,
                     key |-> key, v |-> v, err |-> res.err]
  /\ UNCHANGED <<tWorkflows, tRuns, tStepRuns, tSeq, tClock, tLast, delPc, delId,
                 tAborted>>
  /\ storeOff

\* DeleteWorkflow(id) / ResetAllData (id 0): the next DELETE statement of the
\* cascade; a call starts when none is under way. An error ends the call.
DBCascadeStep(id) ==
  /\ IF delPc = 0 THEN id \in 0..MaxWorkflowIds ELSE id = delId
  /\ LET phase == CascadeOrder[delPc + 1]
         res == DeletePhase(Store, phase, id)
     IN /\ tWorkflows' = res.store.workflows
        /\ tRuns' = res.store.runs
        /\ tStepRuns' = res.store.stepRuns
        /\ tStepData' = res.store.stepData
        /\ IF res.err # "nil"
             THEN /\ delPc' = 0
                  /\ tAborted' = id
                  /\ tCall' = [op |-> "Delete", id |-> id, err |-> res.err]
             ELSE IF delPc + 1 = Len(CascadeOrder)
               THEN /\ delPc' = 0
                    /\ tAborted' = tAborted
                    /\ tCall' = [op |-> "Delete", id |-> id, err |-> "nil"]
               ELSE /\ delPc' = delPc + 1
                    /\ tAborted' = tAborted
                    /\ tCall' = [op |-> "Delete", id |-> id, err |-> "none"]
  /\ delId' = id
  /\ UNCHANGED <<tSeq, tClock, tLast>>
  /\ storeOff

\* The process that runs the cascade crashes between two statements.
DBCascadeCrash ==
  /\ delPc > 0
  /\ delPc' = 0
  /\ tAborted' = delId
  /\ tCall' = [op |-> "Crash"]
  /\ UNCHANGED <<tWorkflows, tRuns, tStepRuns, tStepData, tSeq, tClock, tLast,
                 delId>>
  /\ storeOff

StoreNext ==
  \/ \E name \in WorkflowNames, w \in WorkflowContents : DBInsertWorkflow(name, w)
  \/ \E wid \in 1..MaxWorkflowIds : DBInsertRun(wid)
  \/ \E run \in 1..MaxRunRows : DBInsertStepRun(run)
  \/ \E runID \in 1..MaxRunRows :
       DBStoreStepData(runID, StepA, Greeting, ShortValue)
  \/ \E id \in 0..MaxWorkflowIds : DBCascadeStep(id)
  \/ DBCascadeCrash

StoreSpec == StoreInit /\ [][StoreNext]_vars

\* The callers of StoreStepData alone, with one workflow and its runs.
StepDataNext ==
  \/ \E w \in WorkflowContents : DBInsertWorkflow("n1", w)
  \/ DBInsertRun(1)
  \/ \E c \in StepDataCalls : DBStoreStepData(c.run, c.step, c.key, c.v)

StepDataSpec == StoreInit /\ [][StepDataNext]_vars

\* ========================================================= retryDBOperation
baseDelay == 50

\* Error texts, word by word; nil is the empty text.
NoError == <<>>

\* The text of SQLITE_BUSY with the name of the code in it.
BusyText == <<"database", "is", "locked", "(5)", "(", "SQLITE_BUSY", ")">>

\* The same, wrapped by the operation (AppendLogs: "failed to update logs: %w").
WrappedBusyText == <<"failed", "to", "update", "logs", ":">> \o BusyText

\* A busy or locked condition reported with SQLite's message alone.
LockedText == <<"database", "is", "locked">>

ConstraintText == <<"FOREIGN", "KEY", "constraint", "failed">>

\* What one run of the operation can return.
Outcomes == {NoError, BusyText, WrappedBusyText, LockedText, ConstraintText}

\* strings.Contains
Contains(s, substr) == Index(s, substr) >= 0

\* The test of retryDBOperation for an error to be retried.
IsRetryable(err) ==
  \/ Contains(err, <<"database", "os", "locked">>)
  \/ Contains(err, <<"SQLITE_BUSY">>)

\* An error that tells of a busy or locked database.
BusyOrLocked(err) ==
  \/ Contains(err, <<"database", "is", "locked">>)
  \/ Contains(err, <<"SQLITE_BUSY">>)

RECURSIVE Pow2(_)
Pow2(n) == IF n = 0 THEN 1 ELSE 2 * Pow2(n - 1)

\* delay := time.Duration(1<<uint(i)) * baseDelay, in ms
BackoffDelay(i) == Pow2(i) * baseDelay

retryOff ==
  UNCHANGED <<engineVars, schedOwnVars, delayVars, dataVars, appendVars, storeVars,
              validateVars, workerVars>>

RetryInit ==
  /\ EngineOff
  /\ SchedIdle
  /\ DelayOff
  /\ DataOff
  /\ AppendOff
  /\ StoreOff
  /\ ValidateOff
  /\ WorkerOff
  /\ rPc = "call"
  /\ rI = 0
  /\ rErrs = <<>>
  /\ rDelays = <<>>
  /\ rRet = <<>>

\* One turn of the loop up to its return, continue or sleep: the operation runs
\* and returns err.
RetryAttempt(err) ==
  /\ rPc = "call"
  /\ IF rI >= maxRetries
       THEN /\ rPc' = "done"
            /\ rRet' = <<"max", "retries", "exceeded">>
            /\ rErrs' = rErrs
       ELSE /\ rErrs' = Append(rErrs, err)
            /\ IF err = NoError
                 THEN rPc' = "done" /\ rRet' = NoError
                 ELSE IF IsRetryable(err) /\ rI < maxRetries - 1
                   THEN rPc' = "sleep" /\ rRet' = rRet
                   ELSE rPc' = "done" /\ rRet' = err
  /\ UNCHANGED <<rI, rDelays>>
  /\ retryOff

\* time.Sleep(delay); continue
RetrySleep ==
  /\ rPc = "sleep"
  /\ rDelays' = Append(rDelays, BackoffDelay(rI))
  /\ rI' = rI + 1
  /\ rPc' = "call"
  /\ UNCHANGED <<rErrs, rRet>>
  /\ retryOff

RetryNext ==
  \/ \E err \in Outcomes : RetryAttempt(err)
  \/ RetrySleep

RetrySpec == RetryInit /\ [][RetryNext]_vars

\* ======================================================== Workflow.Validate
\* Bound: names in a depends_on list.
MaxDeps == 2

StepC == <<"C">>

\* A name no step of the model has, and a blank name.
Missing == <<"z">>

Blank == <<" ">>

\* depends_on lists: up to MaxDeps names, declared or not, blank, repeated.
RECURSIVE SeqsUpTo(_, _)
SeqsUpTo(S, n) ==
  IF n = 0 THEN {<<>>}
  ELSE LET shorter == SeqsUpTo(S, n - 1)
       IN shorter \cup {Append(s, x) : s \in shorter, x \in S}

DepLists == SeqsUpTo({StepA, StepB, StepC, Missing, Blank}, MaxDeps)

\* An action pointer of a step: nil, an action its Validate accepts, an action
\* its Validate rejects (no command, no url, no inline text).
ActionStates == {"nil", "ok", "bad"}

\* A step with an exec action and the depends_on list deps.
ExecStep(name, deps) ==
  [name |-> name, dependsOn |-> deps, exec |-> "ok", http |-> "nil",
   script |-> "nil", rest |-> "ok"]

\* Workflows of three steps that differ in their depends_on lists.
GraphWorkflows ==
  {[name |-> <<"w">>,
    steps |-> <<ExecStep(StepA, da), ExecStep(StepB, db), ExecStep(StepC, dc)>>] :
     da \in DepLists, db \in DepLists, dc \in DepLists}

\* Workflows of one step that differ in its actions and its other fields
\* (rest "bad": negative retries, retry delay or timeout, a malformed env key
\* or input).
ActionWorkflows ==
  {[name |-> <<"w">>,
    steps |-> <<[name |-> n, dependsOn |-> d, exec |-> e, http |-> h,
                 script |-> s, rest |-> r]>>] :
     n \in {StepA, Blank}, d \in {<<>>, <<Blank>>, <<StepA>>},
     e \in ActionStates, h \in ActionStates, s \in ActionStates,
     r \in {"ok", "bad"}}

\* Workflows without a name, without steps, with a step name twice.
OddWorkflows ==
  {[name |-> <<>>, steps |-> <<ExecStep(StepA, <<>>)>>],
   [name |-> <<"w">>, steps |-> <<>>],
   [name |-> <<"w">>, steps |-> <<ExecStep(StepA, <<>>), ExecStep(StepA, <<>>)>>],
   [name |-> <<"w">>, steps |-> <<ExecStep(StepA, <<>>), ExecStep(StepB, <<StepA>>)>>]}

ValidateInputs == GraphWorkflows \cup ActionWorkflows \cup OddWorkflows

\* Mutant of ActionError: more than one action is let through.
ActionError_AllowsMany(s) ==
  IF s.exec = "bad" THEN "exec action"
  ELSE IF s.http = "bad" THEN "http action"
  ELSE IF s.script = "bad" THEN "script action"
  ELSE IF s.exec = "nil" /\ s.http = "nil" /\ s.script = "nil"
    THEN "step must define exactly one action"
  ELSE "nil"

\* WorkflowStep.Validate, the part on the actions: each action that is set is
\* counted and validated in turn, then the count is tested.
ActionError(s) ==
  LET actionCount == (IF s.exec # "nil" THEN 1 ELSE 0)
                       + (IF s.http # "nil" THEN 1 ELSE 0)
                       + (IF s.script # "nil" THEN 1 ELSE 0)
  IN IF s.exec = "bad" THEN "exec action"
     ELSE IF s.http = "bad" THEN "http action"
     ELSE IF s.script = "bad" THEN "script action"
     ELSE IF actionCount = 0 THEN "step must define exactly one action"
     ELSE IF actionCount > 1 THEN "only one action may be defined per step"
     ELSE "nil"

\* Mutant of DependsOnError: a name may be repeated.
DependsOnError_AllowsRepeats(deps) ==
  IF \E i \in DOMAIN deps : TrimSpace(deps[i]) = <<>>
    THEN "dependency names must be non-empty"
    ELSE "nil"

\* WorkflowStep.Validate, the loop over DependsOn with its seen map.
RECURSIVE DependsOnFrom(_, _, _)
DependsOnFrom(deps, i, seen) ==
  IF i > Len(deps) THEN "nil"
  ELSE IF TrimSpace(deps[i]) = <<>> THEN "dependency names must be non-empty"
  ELSE IF deps[i] \in seen THEN "duplicate dependency"
  ELSE DependsOnFrom(deps, i + 1, seen \cup {deps[i]})

DependsOnError(deps) == DependsOnFrom(deps, 1, {})

\* WorkflowStep.Validate
ValidateStep(s) ==
  IF TrimSpace(s.name) = <<>> THEN "step name is required"
  ELSE IF ActionError(s) # "nil" THEN ActionError(s)
  ELSE IF s.rest = "bad" THEN "invalid field"
  ELSE DependsOnError(s.dependsOn)

\* Workflow.Validate, first loop: stepsByName, or the first error.
RECURSIVE StepsByNameFrom(_, _, _)
StepsByNameFrom(steps, i, byName) ==
  IF i > Len(steps) THEN [err |-> "nil", byName |-> byName]
  ELSE IF \E s \in byName : s.name = steps[i].name
    THEN [err |-> "duplicate step name", byName |-> byName]
  ELSE IF ValidateStep(steps[i]) # "nil"
    THEN [err |-> ValidateStep(steps[i]), byName |-> byName]
  ELSE StepsByNameFrom(steps, i + 1, byName \cup {steps[i]})

\* Mutant of DependencyError: nothing is looked up.
DependencyError_NoLookup(steps, byName) == "nil"

\* Workflow.Validate, second loop: the first dependency, in the order of the
\* steps and of their lists, that is the step itself or no declared step.
DependencyError(steps, byName) ==
  LET bad(i, j) == \/ steps[i].dependsOn[j] = steps[i].name
                   \/ ~\E s \in byName : s.name = steps[i].dependsOn[j]
      hits == {p \in {<<i, j>> : i \in DOMAIN steps, j \in 1..MaxDeps} :
                 p[2] \in DOMAIN steps[p[1]].dependsOn /\ bad(p[1], p[2])}
  IN IF hits = {} THEN "nil"
     ELSE LET first == CHOOSE p \in hits :
                         \A q \in hits : p[1] < q[1] \/ (p[1] = q[1] /\ p[2] <= q[2])
          IN IF steps[first[1]].dependsOn[first[2]] = steps[first[1]].name
               THEN "cannot depend on itself"
               ELSE "depends on unknown step"

\* steps[name].DependsOn of detectCycles: the list of the step of that name, the
\* empty list of the zero value for a name that is no key.
DependsOnOf(byName, name) ==
  IF \E s \in byName : s.name = name
    THEN (CHOOSE s \in byName : s.name = name).dependsOn
    ELSE <<>>

\* state[name] of detectCycles: names that are no key are unvisited.
VisitStateOf(state, name) ==
  IF name \in DOMAIN state THEN state[name] ELSE "unvisited"

\* detectCycles: visit and its loop over the dependencies of a step.
RECURSIVE visit(_, _, _)
RECURSIVE visitDeps(_, _, _)
visit(byName, state, name) ==
  IF VisitStateOf(state, name) = "visiting"
    THEN [err |-> "dependency cycle detected", state |-> state]
  ELSE IF VisitStateOf(state, name) = "visited"
    THEN [err |-> "nil", state |-> state]
  ELSE LET res == visitDeps(byName,
                            [n \in DOMAIN state \cup {name} |->
                               IF n = name THEN "visiting" ELSE state[n]],
                            DependsOnOf(byName, name))
       IN IF res.err # "nil" THEN res
          ELSE [err |-> "nil", state |-> [res.state EXCEPT ![name] = "visited"]]

visitDeps(byName, state, deps) ==
  IF deps = <<>> THEN [err |-> "nil", state |-> state]
  ELSE LET res == visit(byName, state, Head(deps))
       IN IF res.err # "nil" THEN res
          ELSE visitDeps(byName, res.state, Tail(deps))

\* detectCycles, the loop over the keys of the map, taken in the order `order`.
RECURSIVE visitAll(_, _, _)
visitAll(byName, state, order) ==
  IF order = <<>> THEN "nil"
  ELSE IF VisitStateOf(state, Head(order)) # "unvisited"
    THEN visitAll(byName, state, Tail(order))
  ELSE LET res == visit(byName, state, Head(order))
       IN IF res.err # "nil" THEN res.err
          ELSE visitAll(byName, res.state, Tail(order))

\* Mutant of detectCycles: the search is left out.
detectCycles_Never(byName, order) == "nil"

detectCycles(byName, order) == visitAll(byName, << >>, order)

\* The orders in which a range over the keys of a map can go.
KeyOrders(byName) ==
  LET names == {s.name : s \in byName}
  IN {o \in [1..Cardinality(names) -> names] :
        \A i \in DOMAIN o : \A j \in DOMAIN o : i # j => o[i] # o[j]}

\* Workflow.Validate, the map of detectCycles ranged over in the order `order`
\* (of no account when an earlier test fails).
Validate(w, order) ==
  IF TrimSpace(w.name) = <<>> THEN "workflow name is required"
  ELSE IF Len(w.steps) = 0 THEN "workflow must contain at least one step"
  ELSE LET first == StepsByNameFrom(w.steps, 1, {})
       IN IF first.err # "nil" THEN first.err
          ELSE IF DependencyError(w.steps, first.byName) # "nil"
            THEN DependencyError(w.steps, first.byName)
          ELSE detectCycles(first.byName, order)

validateOff ==
  UNCHANGED <<engineVars, schedOwnVars, delayVars, dataVars, appendVars, storeVars,
              retryVars, workerVars>>

ValidateInit ==
  /\ EngineOff
  /\ SchedIdle
  /\ DelayOff
  /\ DataOff
  /\ AppendOff
  /\ StoreOff
  /\ RetryOff
  /\ WorkerOff
  /\ vWf \in ValidateInputs
  /\ vPc = "call"
  /\ vErr = "nil"

\* w.Validate()
ValidateCall ==
  /\ vPc = "call"
  /\ \E order \in KeyOrders({vWf.steps[i] : i \in DOMAIN vWf.steps}) :
       vErr' = Validate(vWf, order)
  /\ vPc' = "done"
  /\ UNCHANGED vWf
  /\ validateOff

ValidateNext == ValidateCall

ValidateSpec == ValidateInit /\ [][ValidateNext]_vars

\* ================================== executeStep, store call by store call
\* Two steps without dependencies run side by side; A has one retry.
Workers == {"A", "B"}

WorkerRetries == [w \in Workers |-> IF w = "A" THEN 1 ELSE 0]

\* The log lines runner.RunStep can return for one attempt.
RunnerLogs == {<<>>, <<"l1">>, <<"l1", "l2">>}

\* The positions of executeStep where it takes e.mu, calls the store on its
\* StepRun, and releases e.mu, with the position that follows each.
LockAt ==
  [lockRetrying |-> "retrying", lockAppend |-> "append",
   lockSuccess |-> "success", lockTerminal |-> "terminal"]

MutationAt ==
  [insert |-> "setRunning", setRunning |-> "loop", retrying |-> "unlockRetrying",
   append |-> "unlockAppend", success |-> "unlockSuccess",
   terminal |-> "unlockTerminal"]

\* DB.UpdateStepRun with its logs argument, DB.InsertStepRun and DB.AppendLogs
\* on a row [status, logs].
UpdateStepRunLogs(row, status, logs) == [status |-> status, logs |-> logs]

\* Mutant of AppendToStepRun: the logs of the attempt replace the earlier ones.
AppendToStepRun_Replaces(memLogs, logs) == logs

\* stepRun.Logs = append(stepRun.Logs, logs...)
AppendToStepRun(memLogs, logs) == memLogs \o logs

\* The row after the store call of position m by worker w.
RowAfter(w, m) ==
  CASE m = "insert" -> [status |-> StepStatusPending, logs |-> <<>>]
    [] m = "setRunning" -> UpdateStepRunLogs(kRow[w], StepStatusRunning, <<>>)
    [] m = "retrying" -> UpdateStepRunLogs(kRow[w], StepStatusRetrying, kMemLogs[w])
    [] m = "append" -> [kRow[w] EXCEPT !.logs = @ \o kLast[w].logs]
    [] m = "success" -> UpdateStepRunLogs(kRow[w], StepStatusSuccess, kMemLogs[w])
    [] m = "terminal" -> UpdateStepRunLogs(kRow[w], StepStatusFailed, kMemLogs[w])

workerOff ==
  UNCHANGED <<engineVars, schedOwnVars, delayVars, dataVars, appendVars, storeVars,
              retryVars, validateVars>>

WorkerInit ==
  /\ EngineOff
  /\ SchedIdle
  /\ DelayOff
  /\ DataOff
  /\ AppendOff
  /\ StoreOff
  /\ RetryOff
  /\ ValidateOff
  /\ mu = "free"
  /\ kPc = [w \in Workers |-> "insert"]
  /\ kBusy = [w \in Workers |-> FALSE]
  /\ kAttempt = [w \in Workers |-> 0]
  /\ kLast = [w \in Workers |-> [err |-> "none", logs |-> <<>>]]
  /\ kMemLogs = [w \in Workers |-> <<>>]
  /\ kRow = [w \in Workers |-> [status |-> "none", logs |-> <<>>]]
  /\ kReturned = [w \in Workers |-> <<>>]

\* e.mu.Lock()
WorkerLock(w) ==
  /\ kPc[w] \in DOMAIN LockAt
  /\ mu = "free"
  /\ mu' = w
  /\ kPc' = [kPc EXCEPT ![w] = LockAt[kPc[w]]]
  /\ UNCHANGED <<kBusy, kAttempt, kLast, kMemLogs, kRow, kReturned>>
  /\ workerOff

\* The worker enters a store call on its StepRun.
WorkerCall(w) ==
  /\ kPc[w] \in DOMAIN MutationAt
  /\ ~kBusy[w]
  /\ kBusy' = [kBusy EXCEPT ![w] = TRUE]
  /\ UNCHANGED <<mu, kPc, kAttempt, kLast, kMemLogs, kRow, kReturned>>
  /\ workerOff

\* The store call returns, the row written.
WorkerReturn(w) ==
  /\ kPc[w] \in DOMAIN MutationAt
  /\ kBusy[w]
  /\ kRow' = [kRow EXCEPT ![w] = RowAfter(w, kPc[w])]
  /\ kBusy' = [kBusy EXCEPT ![w] = FALSE]
  /\ kPc' = [kPc EXCEPT ![w] = MutationAt[kPc[w]]]
  /\ UNCHANGED <<mu, kAttempt, kLast, kMemLogs, kReturned>>
  /\ workerOff

\* e.mu.Unlock() and what follows up to the next lock, runner call or exit:
\* the back-off, the branch on err, storeStepOutputs, the close and the send.
WorkerUnlock(w) ==
  /\ kPc[w] \in {"unlockRetrying", "unlockAppend", "unlockSuccess", "unlockTerminal"}
  /\ mu' = "free"
  /\ CASE kPc[w] = "unlockRetrying" ->
            /\ kPc' = [kPc EXCEPT ![w] = "run"]
            /\ kAttempt' = kAttempt
       [] kPc[w] = "unlockAppend" ->
            IF kLast[w].err = "nil"
              THEN /\ kPc' = [kPc EXCEPT ![w] = "lockSuccess"]
                   /\ kAttempt' = kAttempt
              ELSE IF kAttempt[w] < WorkerRetries[w]
                THEN /\ kPc' = [kPc EXCEPT ![w] = "loop"]
                     /\ kAttempt' = [kAttempt EXCEPT ![w] = @ + 1]
                ELSE /\ kPc' = [kPc EXCEPT ![w] = "lockTerminal"]
                     /\ kAttempt' = kAttempt
       [] OTHER ->
            /\ kPc' = [kPc EXCEPT ![w] = "exit"]
            /\ kAttempt' = kAttempt
  /\ UNCHANGED <<kBusy, kLast, kMemLogs, kRow, kReturned>>
  /\ workerOff

\* Head of an attempt: attempt > 0 goes through the retrying update.
WorkerLoop(w) ==
  /\ kPc[w] = "loop"
  /\ kPc' = [kPc EXCEPT ![w] = IF kAttempt[w] > 0 THEN "lockRetrying" ELSE "run"]
  /\ UNCHANGED <<mu, kBusy, kAttempt, kLast, kMemLogs, kRow, kReturned>>
  /\ workerOff

\* logs, err := runner.RunStep(...); stepRun.Logs = append(stepRun.Logs, logs...)
WorkerRun(w) ==
  /\ kPc[w] = "run"
  /\ \E err \in {"nil", "fail"}, logs \in RunnerLogs :
       /\ kLast' = [kLast EXCEPT ![w] = [err |-> err, logs |-> logs]]
       /\ kMemLogs' = [kMemLogs EXCEPT ![w] = AppendToStepRun(@, logs)]
       /\ kReturned' = [kReturned EXCEPT ![w] = Append(@, logs)]
  /\ kPc' = [kPc EXCEPT ![w] = "lockAppend"]
  /\ UNCHANGED <<mu, kBusy, kAttempt, kRow>>
  /\ workerOff

WorkerNext ==
  \E w \in Workers :
    \/ WorkerLock(w)
    \/ WorkerCall(w)
    \/ WorkerReturn(w)
    \/ WorkerUnlock(w)
    \/ WorkerLoop(w)
    \/ WorkerRun(w)

WorkerSpec == WorkerInit /\ [][WorkerNext]_vars

\* ===================================================================== claims
\* The scheduler-triggered runs of workflow w that are pending or running.
ScheduledRunsInFlight(w) ==
  {r \in RunIds : /\ dbRuns[r].trigger = "scheduler"
                  /\ dbRuns[r].wf = w
                  /\ Incomplete(dbRuns[r].status)}

\* C1 (as claimed): once startup is through, no workflow has two
\* scheduler-triggered runs in status pending or running; stated for the
\* builds in which every iteration of loadWorkflows' loop has its own variable.
C1_OneScheduledRunPerWorkflow ==
  (schedPc \in {"loop", "draining", "stopped"} /\ ~loopVarShared) =>
    \A w \in WfIds : Cardinality(ScheduledRunsInFlight(w)) <= 1

\* C2: at the step in which ExecuteWorkflow returns, the run row it has written
\* is success if every step of the workflow has a StepRun with status success,
\* and failed otherwise.
C2_RunSuccessIffAllStepsSuccess ==
  [][(execPc # "returned" /\ execPc' = "returned") =>
       /\ runRow'.status \in {RunStatusSuccess, RunStatusFailed}
       /\ (runRow'.status = RunStatusSuccess) <=>
            (\A s \in wf.steps : stepRows'[s].status = StepStatusSuccess)]_vars

\* C2 witness: a returned run that is failed while some of its steps succeeded
\* and one failed.
C2_Witness ==
  /\ execPc = "returned"
  /\ runRow.status = RunStatusFailed
  /\ \E s \in wf.steps : stepRows[s].status = StepStatusSuccess
  /\ \E s \in wf.steps : stepRows[s].status = StepStatusFailed

\* C3 (as claimed): a step that exhausted its attempts and ended failed or
\* timeout has fired its completion signal once its worker is through.
C3_FailedStepSignalsCompletion ==
  \A s \in StepNames :
    (wpc[s] = "exit" /\ stepRows[s].status \in {StepStatusFailed, StepStatusTimeout})
      => doneChans[s]

\* C4 (as claimed): unless the context is cancelled, the StepRuns of the run
\* eventually hold a terminal entry for every step of the workflow.
C4_EventuallyAllStepRunsTerminal ==
  <>(ctxDone \/ \A s \in wf.steps : IsTerminal(stepRows[s].status))

\* C5: a step whose action has been started has every step of its depends_on
\* in a terminal StepRun status.
C5_ActionAfterDependencies ==
  \A s \in wf.steps :
    (invocations[s] > 0 \/ wpc[s] = "run")
      => \A d \in wf.deps[s] : IsTerminal(stepRows[d].status)

\* C5 witness: the last step of the diamond has run its action.
C5_Witness == invocations["D"] > 0

\* C6 (as claimed): when ExecuteWorkflow has returned from a run whose context
\* was not cancelled, every step worker of the run has returned.
C6_ReturnsAfterAllWorkers ==
  (execPc = "returned" /\ ~ctxDone) => \A s \in wf.steps : wpc[s] = "exit"

\* C7 (as claimed): no schedule exists (no timer installed, no run launched)
\* while recoverRuns is at work, and when recoverRuns has returned every run
\* that was pending or running when Start was called, and is still stored, is
\* canceled with completed_at set.
C7_StartupRunsCanceledBeforeScheduling ==
  /\ schedPc \in {"recover", "recovering"} =>
       /\ \A k \in SchedIds : scheds[k] = NoSched
       /\ wg = 0
  /\ schedPc = "load" =>
       \A r \in startIncomplete :
         dbRuns[r].status # "none" =>
           /\ dbRuns[r].status = RunStatusCanceled
           /\ dbRuns[r].completedAt \notin {"null", "zero"}

\* C8 (as claimed): a run row whose status is terminal keeps that status.
C8_TerminalRunStatusIsFinal ==
  [][IsTerminal(runRow.status) => runRow'.status = runRow.status]_vars

\* C9: the runner is invoked at most retries+1 times for a step, exactly once
\* for a step with retries = 0 that has reached a terminal status, and not
\* again once an attempt has succeeded.
C9_AttemptsBounded ==
  /\ [](\A s \in wf.steps :
          /\ invocations[s] <= wf.retries[s] + 1
          /\ (wf.retries[s] = 0 /\ IsTerminal(stepRows[s].status))
               => invocations[s] = 1)
  /\ [][\A s \in wf.steps :
          lastRes[s] = "ok" => invocations'[s] = invocations[s]]_vars

\* C9 witness: a step with retries = 2 that succeeded on its third attempt.
C9_Witness ==
  \E s \in wf.steps :
    /\ wf.retries[s] = 2
    /\ invocations[s] = 3
    /\ stepRows[s].status = StepStatusSuccess

\* C10 (as claimed): the attempt column of a successful StepRun is the number
\* of retries the step consumed.
C10_PersistedAttemptCountsRetries ==
  \A s \in wf.steps :
    stepRows[s].status = StepStatusSuccess
      => stepRows[s].attempt = invocations[s] - 1

\* C11: a StepRun is timeout only when the step has a timeout and the deadline
\* of its last attempt's stepCtx expired, failed only when that attempt ended
\* in an error with the deadline not expired; a worker that is through its
\* last attempt has left the StepRun timeout, failed or success accordingly.
C11_TimeoutIffDeadlineExpired ==
  \A s \in wf.steps :
    /\ stepRows[s].status = StepStatusTimeout
         => (wf.timeout[s] /\ lastRes[s] = "deadline")
    /\ stepRows[s].status = StepStatusFailed => lastRes[s] = "fail"
    /\ (wpc[s] = "exit" /\ invocations[s] = wf.retries[s] + 1)
         => stepRows[s].status =
              (CASE lastRes[s] = "deadline" -> StepStatusTimeout
                 [] lastRes[s] = "fail" -> StepStatusFailed
                 [] OTHER -> StepStatusSuccess)

\* C11 witness: a step that ended timeout on a retry, and a step without a
\* timeout that ended failed.
C11_Witness ==
  \E s \in wf.steps :
    /\ stepRows[s].status = StepStatusTimeout
    /\ invocations[s] = wf.retries[s] + 1
    /\ wf.retries[s] > 0

\* C12: once the context of the run is cancelled, ExecuteWorkflow returns and
\* every step worker of the run exits.
C12_CancelledRunWindsDown ==
  ctxDone ~> (execPc = "returned" /\ \A s \in wf.steps : wpc[s] = "exit")

\* C12 witness: a cancelled run that has returned the context's error, with
\* every worker gone and one of them woken from its dependency wait.
C12_Witness ==
  /\ ctxDone
  /\ execPc = "returned"
  /\ execErr = "ctx"
  /\ \A s \in wf.steps : wpc[s] = "exit"
  /\ \E s \in wf.steps : stepRows[s].status = "none"

\* C13 (as claimed): a run whose ExecuteWorkflow returned because its context
\* was cancelled still has the status it had when the cancellation came
\* (running): the engine has written no new run status.
C13_CancelledRunLeftAsPersisted ==
  (execPc = "returned" /\ execErr = "ctx") => runRow.status = RunStatusRunning

\* C14 (as claimed): a run row with status success or failed has completed_at
\* set to the time of the write, neither absent nor the zero time; stated for
\* runs whose context was not cancelled.
C14_TerminalRunHasCompletedAt ==
  (~ctxDone /\ runRow.status \in {RunStatusSuccess, RunStatusFailed})
    => runRow.completedAt = "now"

\* C15 (as claimed): a StepRun has status retrying only between attempts, from
\* the failed attempt until the next call of the runner; stated for runs whose
\* context was not cancelled.
C15_RetryingOnlyBetweenAttempts ==
  \A s \in wf.steps :
    (~ctxDone /\ stepRows[s].status = StepStatusRetrying)
      => wpc[s] \in {"backoff", "run"}

\* A schedule object whose workflow has no entry in s.schedules any more.
Removed(k) == scheds[k].key # 0 /\ schedules[scheds[k].key] = 0

\* C16 (as claimed): a schedule whose workflow was removed from the map has no
\* timer that can still fire, and a run of it that is in flight is cancelled.
C16_RemovedScheduleIsQuiet ==
  \A k \in SchedIds :
    Removed(k) =>
      /\ scheds[k].timer # "armed"
      /\ scheds[k].running => scheds[k].ctxDone

\* C17 (as claimed): a reconcile pass leaves s.schedules with an entry for
\* exactly the stored workflows whose schedule parses as a duration.
C17_MapIsParseableSchedules ==
  [][loadWorkflows =>
       \A w \in WfIds : (schedules'[w] # 0) <=> (dbWorkflows'[w] \in Durations)]_vars

\* C18 (as claimed): once shutdown has been declared complete no Execute task
\* is running and none is about to be started.
C18_NoTaskAfterShutdown ==
  schedPc = "stopped" => \A k \in SchedIds : scheds[k].task = "none"

\* C19 (as claimed): when Start has done its recovery and its first
\* loadWorkflows, every run that was running at startup, and is still stored,
\* of a workflow with a schedule is canceled with completed_at set, and the
\* timer installed for that workflow waits for one full interval.
C19_RecoveredThenFullInterval ==
  [][(schedPc = "load" /\ schedPc' = "loop") =>
       \A r \in startIncomplete :
         (/\ recList[r] = RunStatusRunning
          /\ dbRuns'[r].status # "none"
          /\ dbWorkflows'[dbRuns'[r].wf] \in Durations)
           => /\ dbRuns'[r].status = RunStatusCanceled
              /\ dbRuns'[r].completedAt \notin {"null", "zero"}
              /\ schedules'[dbRuns'[r].wf] # 0
              /\ scheds'[schedules'[dbRuns'[r].wf]].delay
                   = Interval(dbWorkflows'[dbRuns'[r].wf])]_vars

\* C20: the delay calculateInitialDelay returns for interval D is 0 without
\* rows, D when the row created last has no completed_at, and otherwise
\* D - (now - completed_at) of that row, or 0 when that is negative.
C20_InitialDelay ==
  delayOut # -1 =>
    LET rows == delayIn.runs
        D == delayIn.duration
    IN IF rows = {} THEN delayOut = 0
       ELSE \E r \in rows :
              /\ \A q \in rows : q.createdAt <= r.createdAt
              /\ IF r.completedAt = 0 THEN delayOut = D
                 ELSE LET rest == D - (delayIn.now - r.completedAt)
                      IN delayOut = (IF rest < 0 THEN 0 ELSE rest)

\* C20 witness: two rows, the later one completed less than an interval ago,
\* the earlier one never: the delay is the rest of the interval.
C20_Witness ==
  /\ delayOut > 0
  /\ delayOut < delayIn.duration
  /\ \E r, q \in delayIn.runs :
       /\ q.createdAt < r.createdAt
       /\ q.completedAt = 0
       /\ r.completedAt > 0

\* The example workflow: step A is `echo hello` with outputs
\* {greeting: "hello"}, step B reads {MSG: "A.greeting"}.
HelloChain ==
  /\ dLogs = <<Hello>>
  /\ dOutputs = [k \in {Greeting} |-> Hello]
  /\ dInputs = [m \in {"MSG"} |-> [src |-> StepA, key |-> Greeting]]

\* C21 (as claimed): the run of the example workflow, both commands exiting
\* with 0, stores the step data (A, greeting, "hello"), resolves B's env to
\* MSG = "hello" and ends success.
C21_HelloChainPropagates ==
  (HelloChain /\ dPc = "returned" /\ dErr \notin {"step A failed", "step B failed"})
    => /\ [run |-> 1, step |-> StepA, key |-> Greeting, value |-> Hello] \in dData
       /\ dEnv = [m \in {"MSG"} |-> Hello]
       /\ dRun = RunStatusSuccess

\* C21 (amended): in the run of the example workflow, `echo hello` exiting
\* with 0, the only log line of A is the literal itself, so nothing follows
\* the literal and no step data is stored for A; B's input resolution fails
\* on the missing source step, B gets no StepRun and is never run, and the
\* run ends failed.
C21_HelloChainStoresNothing ==
  (HelloChain /\ dPc = "returned" /\ dErr # "step A failed")
    => /\ dData = {}
       /\ dStepRuns[StepA] = StepStatusSuccess
       /\ dErr = "non-existent step"
       /\ dEnv = <<>>
       /\ dStepRuns[StepB] = "none"
       /\ StepB \notin dInvoked
       /\ dRun = RunStatusFailed

\* C21 witness: the example workflow has run to its end, A succeeded.
C21_Witness ==
  /\ HelloChain
  /\ dPc = "returned"
  /\ dStepRuns[StepA] = StepStatusSuccess
  /\ StepA \in dInvoked

\* The step_data rows of run 1 under the source step of B's input.
SourceRows == {r \in dData : r.run = 1 /\ r.step = dInputs["MSG"].src}

\* C22: once B's worker is past its input resolution, an input whose source
\* step has no step data in the run has made it fail with the missing-step
\* error, an input whose key is absent under the source step with the
\* missing-output error; in both cases B has no StepRun, the runner was not
\* called for B, and the run is failed when ExecuteWorkflow has returned.
C22_MissingInputFailsStep ==
  (dStepRuns[StepA] = StepStatusSuccess /\ dPc # "resolveB" /\ dInputs # <<>>)
    => LET missingStep == SourceRows = {}
           missingKey == /\ SourceRows # {}
                         /\ \A r \in SourceRows : r.key # dInputs["MSG"].key
       IN /\ missingStep => dErr = "non-existent step"
          /\ missingKey => dErr = "non-existent output"
          /\ (missingStep \/ missingKey)
               => /\ dStepRuns[StepB] = "none"
                  /\ StepB \notin dInvoked
                  /\ dPc \in {"markFailed", "returned"}
                  /\ dPc = "returned" => dRun = RunStatusFailed

\* C22 witness: a returned run in which A stored data, but not under the key
\* B's input names.
C22_Witness ==
  /\ dPc = "returned"
  /\ dInputs # <<>>
  /\ SourceRows # {}
  /\ dErr = "non-existent output"
  /\ dRun = RunStatusFailed

\* C23 (as claimed): no step_data row the engine wrote has an empty value.
C23_NoEmptyStepData == \A r \in dData : r.value # <<>>

\* The trimmed text after the first occurrence of the literal on line i.
Trailing(i, literal) ==
  TrimSpace(SubSeq(dLogs[i], Index(dLogs[i], literal) + Len(literal) + 1,
                   Len(dLogs[i])))

\* The lines that contain the literal and have text after it.
LinesWithValue(literal) ==
  {i \in DOMAIN dLogs : Index(dLogs[i], literal) >= 0 /\ Trailing(i, literal) # <<>>}

\* The step_data rows step A's declared output has after storeStepOutputs.
GreetingRows == {r \in dData : r.run = 1 /\ r.step = StepA /\ r.key = Greeting}

\* C24: for an output whose rule is a plain literal, once storeStepOutputs
\* is through, the value stored under the output key is the trimmed text after
\* the literal on the first line that contains the literal with text after
\* it, and no row is stored under the key when there is no such line.
C24_LiteralFirstNonEmptyWins ==
  (dStepRuns[StepA] = StepStatusSuccess /\ dOutputs # <<>>
     /\ dOutputs[Greeting] \in Literals)
    => LET literal == dOutputs[Greeting]
           good == LinesWithValue(literal)
       IN IF good = {} THEN GreetingRows = {}
          ELSE LET first == CHOOSE i \in good : \A j \in good : i <= j
               IN GreetingRows = {[run |-> 1, step |-> StepA, key |-> Greeting,
                                   value |-> Trailing(first, literal)]}

\* C24 witness: the literal is alone on the first line and followed by a
\* value on the second; the second line's value is stored.
C24_Witness ==
  /\ dStepRuns[StepA] = StepStatusSuccess
  /\ dOutputs # <<>>
  /\ dOutputs[Greeting] = <<"k">>
  /\ dLogs = << <<"k", " ">>, <<"k", " ", "v">> >>
  /\ GreetingRows = {[run |-> 1, step |-> StepA, key |-> Greeting,
                      value |-> <<"v">>]}

\* C25 (as claimed): when the concurrent AppendLogs calls for one StepRun
\* have returned without an error, the stored logs hold the lines of every
\* call.
C25_ConcurrentAppendsKeepBoth ==
  (\A c \in Callers : aPc[c] = "done" /\ aErr[c] = "nil")
    => \A c \in Callers :
         Len(SelectSeq(aLogs, LAMBDA l : l = LineOf(c))) = Len(aArg[c])

\* C26: DeleteWorkflow(id) is idempotent: from any state of the store, running
\* it twice leaves the same store and result as running it once, it returns
\* nil and leaves nothing of the workflow, also when it is run again after a
\* cascade that ended between two statements.
C26_DeleteWorkflowIdempotent ==
  /\ \A id \in 1..MaxWorkflowIds :
       LET once == DBDeleteWorkflow(Store, id)
           twice == DBDeleteWorkflow(once.store, id)
       IN /\ twice = once
          /\ once.err = "nil"
          /\ Clean(once.store, id)
          /\ \A x \in tWorkflows : x.id # id => x \in once.store.workflows
          /\ \A r \in tRuns : r.wf # id => r \in once.store.runs
  /\ (tCall.op = "Delete" /\ tCall.err = "nil") => Clean(Store, tCall.id)

\* A DeleteWorkflow returned nil for a workflow whose earlier cascade had ended
\* between two statements, and another workflow is still there.
C26_Witness ==
  /\ tCall.op = "Delete"
  /\ tCall.err = "nil"
  /\ tCall.id > 0
  /\ tAborted = tCall.id
  /\ tWorkflows # {}

\* C27: DeleteWorkflow and ResetAllData delete step data, step runs, runs and
\* the workflow in that order: in every state, a cascade under way or ended
\* early included, every step_data and step_runs row has its run and every run
\* its workflow, and from every state each statement of a cascade succeeds and
\* leaves the references whole.
C27_CascadeKeepsReferences ==
  /\ Referential(Store)
  /\ \A id \in 0..MaxWorkflowIds : \A k \in 0..Len(CascadeOrder) :
       LET res == Cascade(Store, SubSeq(CascadeOrder, 1, k), id)
       IN res.err = "nil" /\ Referential(res.store)

\* A cascade ended after its step data and step runs were deleted, the runs of
\* its workflow still there.
C27_Witness ==
  /\ tCall.op = "Crash"
  /\ tAborted > 0
  /\ \E r \in tRuns : r.wf = tAborted
  /\ tStepData = {}

\* C28: InsertWorkflow upserts by name: at most one row per name, an insert
\* under a name that has a row keeps the row's id and created_at and sets the
\* other fields, and GetWorkflowByName returns the description, schedule and
\* steps of the last insert.
C28_InsertWorkflowUpsertsByName ==
  /\ [](\A n \in WorkflowNames : Cardinality({x \in tWorkflows : x.name = n}) <= 1)
  /\ [][tCall'.op = "InsertWorkflow"
          => \A x \in tWorkflows : \A y \in tWorkflows' :
               x.name = y.name
                 => /\ x.id = y.id
                    /\ x.createdAt = y.createdAt
                    /\ (y.name = tCall'.name => y.updatedAt = tClock')]_vars
  /\ [](\A n \in WorkflowNames :
          LET got == GetWorkflowByName(tWorkflows, n)
          IN got.err = "nil"
               => /\ tLast[n] \in WorkflowContents
                  /\ got.description = tLast[n].description
                  /\ got.schedule = tLast[n].schedule
                  /\ got.steps = tLast[n].steps)

\* A workflow was inserted again under its name with other fields.
C28_Witness ==
  /\ tCall.op = "InsertWorkflow"
  /\ \E x \in tWorkflows :
       /\ x.name = tCall.name
       /\ x.updatedAt > x.createdAt
       /\ x.description = "d"
       /\ UnmarshalSteps(x.steps) = "s1"

\* C29: StoreStepData upserts on (run_id, step_name, key): at most one value per
\* triple, the value of the last write; a call with an empty step name or key,
\* a non-positive run id or a value of more than 10,000 characters returns an
\* error, and a call that returns an error leaves step_data as it was.
C29_StoreStepDataUpsertsAndRejects ==
  /\ [](\A d \in tStepData : \A e \in tStepData :
          (d.run = e.run /\ d.step = e.step /\ d.key = e.key) => d = e)
  /\ [][tCall'.op = "StoreStepData"
          => LET c == tCall'
             IN /\ (\/ c.run <= 0
                    \/ c.step = <<>>
                    \/ c.key = <<>>
                    \/ c.v.chars > 10000) => c.err # "nil"
                /\ c.err # "nil" => tStepData' = tStepData
                /\ c.err = "nil"
                     => /\ [run |-> c.run, step |-> c.step, key |-> c.key,
                            value |-> c.v.value] \in tStepData'
                        /\ \A d \in tStepData \cup tStepData' :
                             (d.run # c.run \/ d.step # c.step \/ d.key # c.key)
                               => (d \in tStepData <=> d \in tStepData')]_vars

\* A value was written over another one of the same triple, and a call with a
\* value of 10,001 characters was rejected with that row in place.
C29_Witness ==
  /\ tCall.op = "StoreStepData"
  /\ tCall.v.chars = 10001
  /\ tCall.err # "nil"
  /\ [run |-> 1, step |-> StepA, key |-> Greeting, value |-> <<"long">>]
       \in tStepData

\* C30: a retried store operation is attempted at most 5 times; the sleeps
\* between attempts are 50, 100, 200 and 400 ms; every attempt but the last
\* failed with a busy or locked error; the call returns what its last attempt
\* returned: nil, an error that is not busy or locked, or the busy or locked
\* error of the fifth attempt.
C30_RetryPolicy ==
  /\ Len(rErrs) <= 5
  /\ rDelays = SubSeq(<<50, 100, 200, 400>>, 1, Len(rDelays))
  /\ \A k \in 1..(Len(rErrs) - 1) : BusyOrLocked(rErrs[k])
  /\ rPc = "done"
       => /\ rRet = rErrs[Len(rErrs)]
          /\ Len(rDelays) = Len(rErrs) - 1
          /\ \/ rRet = NoError
             \/ ~BusyOrLocked(rRet)
             \/ Len(rErrs) = 5

\* The depends_on graph of w: an edge from each step's name to each name of its
\* list.
DependsEdges(w) ==
  UNION {{<<w.steps[i].name, w.steps[i].dependsOn[j]>> :
            j \in DOMAIN w.steps[i].dependsOn} : i \in DOMAIN w.steps}

\* The names reached from the names of `from` by one to k edges of E.
RECURSIVE ReachedIn(_, _, _)
ReachedIn(E, from, k) ==
  IF k = 0 THEN {}
  ELSE LET next == {e[2] : e \in {d \in E : d[1] \in from}}
       IN next \cup ReachedIn(E, next, k - 1)

HasCycle(w) ==
  \E i \in DOMAIN w.steps :
    w.steps[i].name \in ReachedIn(DependsEdges(w), {w.steps[i].name}, Len(w.steps))

\* C31: Workflow.Validate returns an error for every workflow whose depends_on
\* graph has a cycle, and returns the cycle error for no workflow whose graph
\* has none.
C31_ValidateRejectsExactlyCycles ==
  vPc = "done"
    => /\ HasCycle(vWf) => vErr # "nil"
       /\ vErr = "dependency cycle detected" => HasCycle(vWf)

\* Validate returned the cycle error for a workflow of three steps.
C31_Witness ==
  /\ vPc = "done"
  /\ vErr = "dependency cycle detected"
  /\ Len(vWf.steps) = 3

\* C32: Workflow.Validate returns an error when the depends_on of a step names
\* no declared step, names the step itself, holds a blank name or holds a name
\* twice.
C32_ValidateRejectsBadDependsOn ==
  vPc = "done"
    => \A i \in DOMAIN vWf.steps :
         LET s == vWf.steps[i]
             deps == s.dependsOn
         IN (\/ \E j \in DOMAIN deps :
                  \/ ~\E k \in DOMAIN vWf.steps : vWf.steps[k].name = deps[j]
                  \/ deps[j] = s.name
                  \/ deps[j] \in {<<>>, Blank}
             \/ \E j \in DOMAIN deps : \E k \in DOMAIN deps :
                  j # k /\ deps[j] = deps[k])
              => vErr # "nil"

\* Validate returned the unknown-step error.
C32_Witness ==
  /\ vPc = "done"
  /\ vErr = "depends on unknown step"

\* C33: a workflow Workflow.Validate accepts has exactly one of exec, http and
\* script set in every step.
C33_ValidateExactlyOneAction ==
  (vPc = "done" /\ vErr = "nil")
    => \A i \in DOMAIN vWf.steps :
         Cardinality({a \in {"exec", "http", "script"} :
                        vWf.steps[i][a] # "nil"}) = 1

\* Validate returned the error of a step with more than one action.
C33_Witness ==
  /\ vPc = "done"
  /\ vErr = "only one action may be defined per step"

\* C34: a step's completion channel is closed only after its StepRun has its
\* terminal status and its outputs are stored: while the channel is closed the
\* StepRun is terminal, the worker has left, neither the StepRun nor the step's
\* step data change any more, and a worker that resolves its inputs finds the
\* StepRun of every step it depends on terminal.
C34_SignalAfterPersisted ==
  /\ [](\A s \in StepNames :
          doneChans[s] => IsTerminal(stepRows[s].status) /\ wpc[s] = "exit")
  /\ [](\A s \in StepNames :
          wpc[s] = "resolve"
            => \A d \in wf.deps[s] : IsTerminal(stepRows[d].status))
  /\ [][\A s \in StepNames :
          doneChans[s] => /\ doneChans'[s]
                          /\ stepRows'[s] = stepRows[s]
                          /\ (s \in stepData' <=> s \in stepData)]_vars

\* D of the diamond is about to resolve its inputs, signalled by B and C, whose
\* step data is stored.
C34_Witness ==
  /\ wpc["D"] = "resolve"
  /\ doneChans["B"]
  /\ doneChans["C"]
  /\ {"B", "C"} \subseteq stepData

\* C35: every store call a step worker makes on its StepRun (the insert, the
\* updates to running and retrying, each log append, the terminal update) is
\* made with e.mu held by that worker, so no two of them overlap.
C35_StepRunMutationsUnderMutex ==
  /\ \A w \in Workers : kBusy[w] => mu = w
  /\ Cardinality({w \in Workers : kBusy[w]}) <= 1

\* The lines of the attempts, one after the other.
RECURSIVE Concat(_)
Concat(lists) == IF lists = <<>> THEN <<>> ELSE Head(lists) \o Concat(Tail(lists))

\* C36: when a StepRun has a terminal status its stored logs are the log lines
\* the runner returned, attempt after attempt, each line once and in the
\* runner's order.
C36_LogsAreAttemptsInOrder ==
  \A w \in Workers :
    IsTerminal(kRow[w].status) => kRow[w].logs = Concat(kReturned[w])

\* A's StepRun is terminal after two attempts that both returned lines.
C36_Witness ==
  /\ IsTerminal(kRow["A"].status)
  /\ Len(kReturned["A"]) = 2
  /\ kReturned["A"][1] = <<"l1", "l2">>
  /\ kReturned["A"][2] = <<"l1">>

\* C37: when the task of a scheduled run returns, whatever status the run ended
\* with, its schedule is left not running, without a cancel function and,
\* unless the scheduler's context is done, with a timer armed for one interval;
\* while the scheduler's context is not done an armed timer of a schedule is
\* only taken away by firing, by a reconcile pass that drops or replaces the
\* schedule, or by shutdown, and a fired timer of a schedule that is not
\* running launches the next run.
C37_ReturnRearms ==
  [][\A k \in SchedIds :
       /\ (scheds[k].task = "finishing" /\ scheds'[k].task # "finishing") =>
             /\ ~scheds'[k].running
             /\ ~scheds'[k].cancelRun
             /\ scheds'[k].task = "none"
             /\ ~rootDone => /\ scheds'[k].timer = "armed"
                             /\ scheds'[k].delay = Interval(scheds[k].duration)
       /\ (scheds[k].timer = "armed" /\ scheds'[k].timer \notin {"armed", "fired"}) =>
             \E w \in WfIds : /\ schedules[w] = k
                              /\ schedules'[w] # k \/ schedPc' = "draining"
       /\ (scheds[k].timer = "fired" /\ scheds'[k].timer # "fired"
            /\ ~scheds[k].running /\ ~rootDone) =>
             /\ scheds'[k].task = "launching"
             /\ scheds'[k].running]_vars

\* The only schedule ever installed has had a run that ended in failure and
\* launches its next run.
C37_Witness ==
  /\ nextSched = 2
  /\ scheds[1].task = "launching"
  /\ \E r \in RunIds : /\ dbRuns[r].trigger = "scheduler"
                       /\ dbRuns[r].status = RunStatusFailed
                       /\ dbRuns[r].completedAt \in {"now", "zero"}

\* C38: ExecuteWorkflow of a valid workflow returns to its caller in every
\* behaviour in which the goroutines are scheduled and the actions and store
\* calls end, whether or not steps fail and whether or not the context is
\* cancelled: the dependency waits do not keep it from returning.
C38_ExecuteReturns == <>(execPc = "returned")

\* C38 witness: ExecuteWorkflow has returned the error of a failed step, the
\* context was never cancelled and a dependent of the failed step is still in
\* its dependency wait.
C38_Witness ==
  /\ execPc = "returned"
  /\ ~ctxDone
  /\ execErr \notin {"nil", "none", "ctx"}
  /\ \E s \in wf.steps :
       /\ wpc[s] = "wait"
       /\ \E d \in wf.deps[s] : stepRows[d].status = StepStatusFailed

\* What a worker can send on errCh.
ErrValues == {"nil", "ctx", "resolve", "step"}

\* The results ExecuteWorkflow has taken from errCh: the nils it counted and
\* the error that ended its loop.
Consumed ==
  received + (IF execPc = "markFailed" \/ (execPc = "returned" /\ execErr # "nil")
                THEN 1 ELSE 0)

\* C39: within one run every worker sends one result on errCh, in the step in
\* which it returns, and none before or after: the results sent are those of
\* the workers that have returned, one each; errCh never holds more than
\* len(Steps) results, its capacity, so that no send blocks, before or after
\* ExecuteWorkflow's return; a step's channel of doneChans goes from open to
\* closed once, in a step of that step's own worker, and is never closed again.
C39_OneSendOneClose ==
  /\ [](/\ Len(errCh) <= Cardinality(wf.steps)
        /\ \A i, j \in DOMAIN errCh : errCh[i].from = errCh[j].from => i = j
        /\ \A i \in DOMAIN errCh : wpc[errCh[i].from] = "exit"
        /\ execPc \in {"collect", "markFailed", "getStepRuns", "finalUpdate", "returned"}
             => Cardinality({s \in wf.steps : wpc[s] = "exit"}) = Len(errCh) + Consumed
        /\ \A s \in StepNames : doneChans[s] => wpc[s] = "exit")
  /\ [][/\ \A s \in StepNames :
            /\ (wpc[s] # "exit" /\ wpc'[s] = "exit")
                  <=> \E e \in ErrValues : errCh' = Append(errCh, [from |-> s, err |-> e])
            /\ wpc[s] = "exit" => wpc'[s] = "exit"
            /\ doneChans[s] => doneChans'[s]
            /\ doneChans'[s] # doneChans[s]
                  => /\ wpc[s] = "close"
                     /\ wpc'[s] = "exit"
                     /\ \A t \in StepNames \ {s} : wpc'[t] = wpc[t]
        /\ errCh' # errCh =>
              \/ errCh # <<>> /\ errCh' = Tail(errCh)
              \/ \E s \in wf.steps, e \in ErrValues :
                    errCh' = Append(errCh, [from |-> s, err |-> e])]_vars

\* C39 witness: ExecuteWorkflow has returned a step's error and two results
\* sent since are in errCh, one of them that of a worker that closed its
\* channel.
C39_Witness ==
  /\ execPc = "returned"
  /\ execErr = "step"
  /\ Len(errCh) >= 2
  /\ \E i \in DOMAIN errCh : errCh[i].err = "nil" /\ doneChans[errCh[i].from]

====
